---------------------------- MODULE Spec2Model ----------------------------
(***************************************************************************)
(* A model of the Atari 2600 emulator core: the Console structure          *)
(* (src/src/console.rs), its memory-mapped bus, the PIA timer, the TIA     *)
(* beam state machine, the time-to-cycles loop of Console::update and the  *)
(* 6507 instruction set (src/src/instruction.rs, addressing_mode.rs).      *)
(*                                                                         *)
(* The Console is one record whose fields carry the names of the Rust      *)
(* struct.  Every Rust function that takes `&mut Console` is an operator   *)
(* from a console record to a console record (plus its return value).      *)
(* A Rust panic is recorded in the extra field `panic`.                    *)
(***************************************************************************)
EXTENDS Integers, Sequences, FiniteSets, TLC

VARIABLES
    console,          \* the Console structure
    update_pc,        \* where the (single) thread is inside Console::update
    elapsed_cycles,   \* the local `elapsed_cycles` of Console::update
    overflow_checks,  \* build profile: TRUE = arithmetic overflow panics (debug)
    calls,            \* number of calls made by the host so far
    last_op,          \* the bus-level operation performed last (BusSpec)
    obs               \* history of the run, used to state properties only

vars == <<console, update_pc, elapsed_cycles, overflow_checks, calls, last_op, obs>>

---------------------------------------------------------------------------
(* Bounds of the model.                                                    *)

\* number of Console::update calls the host makes in one run
MaxUpdates == 4
\* total elapsed time (ns) the host hands to the short-step runs
MaxElapsed == 101000
\* number of bus-level operations in one run of BusSpec
MaxBusOps == 6
\* number of instructions executed in one run
MaxInstructions == 4100
\* number of one-frame updates in one run of FrameSpec
MaxFrames == 2
\* number of bus-level operations in one run of MirrorSpec
MaxMirrorOps == 3
\* number of switch operations in one run of SwitchSpec
MaxSwitchOps == 4

---------------------------------------------------------------------------
(* Program constants.                                                      *)

HORIZONTAL_CYCLES == 228
VERTICAL_LINES == 262
CYCLE_DURATION == 1000000000 \div 1193525

VSYNC  == 0
WSYNC  == 2
CXCLR  == 44
CXM0P  == 48
CXM1P  == 49
CXP0FB == 50
CXP1FB == 51
CXM0FB == 52
CXM1FB == 53
CXBLPF == 54
CXPPMM == 55
SWCHB  == 642
INTIM  == 644
INSTAT == 645
TIM1T  == 660
TIM8T  == 661
TIM64T == 662
T1024T == 663

---------------------------------------------------------------------------
(* Byte arithmetic (u8 / u16 of the Rust code).                            *)

Bit(v, b) == (v \div (2 ^ b)) % 2

SetBit(v, b) == IF Bit(v, b) = 1 THEN v ELSE v + 2 ^ b

\* the bit is left as it is
KeepBit(v, b) == v

ClearBit(v, b) == IF Bit(v, b) = 1 THEN v - 2 ^ b ELSE v

RECURSIVE BitSum(_, _, _, _)
BitSum(F(_, _), a, b, i) ==
    IF i > 7 THEN 0
    ELSE (IF F(Bit(a, i), Bit(b, i)) THEN 2 ^ i ELSE 0) + BitSum(F, a, b, i + 1)

AndBits(p, q) == p = 1 /\ q = 1
OrBits(p, q) == p = 1 \/ q = 1
XorBits(p, q) == p # q

BitAnd(a, b) == BitSum(AndBits, a, b, 0)
BitOr(a, b) == BitSum(OrBits, a, b, 0)
BitXor(a, b) == BitSum(XorBits, a, b, 0)

from_le_bytes(ll, hh) == hh * 256 + ll

HighByte(w) == w \div 256

LowByte(w) == w % 256

---------------------------------------------------------------------------
(* Cartridges.  The record field `cartridge` names the cartridge; its      *)
(* memory (a Vec<u8>, indexed from 0) is the sequence given here.          *)

Pad(bytes, fill) == [i \in 1..4096 |-> IF i <= Len(bytes) THEN bytes[i] ELSE fill]

Repeat(byte, n) == [i \in 1..n |-> byte]

\* the cartridge of test_timer: LDA #5; STA TIM8T; NOPs; LDX INSTAT; NOPs
RomTimer ==
    <<169, 5, 141, 149, 2>> \o Repeat(234, 18) \o <<174, 133, 2>> \o Repeat(234, 45)

\* a 4 KiB image holding only BRK (0x00)
RomBrk == Repeat(0, 4096)

\* a display kernel: raise and clear VSYNC around a WSYNC, then one line per
\* loop:  LDA #2; STA VSYNC; STA WSYNC; LDA #0; STA VSYNC;
\*        loop: INC $0080,X; STA WSYNC; JMP loop
RomKernel ==
    Pad(<<169, 2, 133, 0, 133, 2, 169, 0, 133, 0,
          254, 128, 0, 133, 2, 76, 10, 240>>, 234)

\* LDA #3; STA TIM1T; NOP x 4; LDA #2; STA TIM64T; loop: JMP loop
RomIntervals ==
    Pad(<<169, 3, 141, 148, 2, 234, 234, 234, 234,
          169, 2, 141, 150, 2, 76, 14, 240>>, 234)

\* LDA #1; STA T1024T; loop: STA WSYNC; JMP loop
RomLong == Pad(<<169, 1, 141, 151, 2, 133, 2, 76, 5, 240>>, 234)

\* opcodes that execute_instruction does not know (0x02, 0xE4, 0xFF, 0xEC,
\* 0x03), then LDA #1 and NOPs
RomUnknown == Pad(<<2, 228, 255, 236, 3, 169, 1>>, 234)

\* NOP x 37 (74 CPU cycles); STA WSYNC; NOP ...: the store happens two CPU
\* cycles before the end of the first line
RomLate == [i \in 1..4096 |-> IF i = 38 THEN 133 ELSE IF i = 39 THEN 2 ELSE 234]

\* LDX #229; wait: STA WSYNC; DEX; BNE wait; LDA #$80; STA COLUBK;
\* STA WSYNC; STA WSYNC; LDA #0; STA COLUBK; loop: STA WSYNC; JMP loop
RomPicture ==
    Pad(<<162, 229, 133, 2, 202, 208, 251, 169, 128, 133, 9, 133, 2, 133, 2,
          169, 0, 133, 9, 133, 2, 76, 19, 240>>, 234)

\* stack and subroutine instructions at fixed places of the ROM window:
\*   0xF000 PHA; PLA; PHP; PLP        0xF004 JSR $F020      0xF020 RTS
\*   0xF030 BCC -128                  0xF0FD JSR $1020 (the return address
\*   0xF100 BNE -3                           0xF0FF ends its page)
\*   0xF1FE JSR $F020 (operand across a page)
\*   0xFFFC JSR $F020 (the last JSR whose operand fits below 0x10000)
RomStack ==
    [i \in 1..4096 |->
        CASE i = 1 -> 72 [] i = 2 -> 104 [] i = 3 -> 8 [] i = 4 -> 40
          [] i \in {5, 254, 511, 4093} -> 32
          [] i \in {6, 255, 512, 4094} -> 32
          [] i \in {7, 513, 4095} -> 240
          [] i = 256 -> 16
          [] i = 33 -> 96
          [] i = 49 -> 144 [] i = 50 -> 128
          [] i = 257 -> 208 [] i = 258 -> 253
          [] OTHER -> 234]

CartridgeMemory(name) ==
    CASE name = "timer" -> RomTimer
      [] name = "stack" -> RomStack
      [] name = "late" -> RomLate
      [] name = "picture" -> RomPicture
      [] name = "brk" -> RomBrk
      [] name = "kernel" -> RomKernel
      [] name = "intervals" -> RomIntervals
      [] name = "long" -> RomLong
      [] name = "unknown" -> RomUnknown

\* the cartridges of the short-step runs and of the one-frame runs
Cartridges == {"timer", "brk", "kernel", "intervals", "unknown", "late"}

FrameCartridges == {"kernel", "long"}

---------------------------------------------------------------------------
(* Console::new                                                            *)

\* a console powered on with everything cleared
new_cleared(cartridge) ==
    [ pointer_counter |-> 0,
      accumulator |-> 0,
      x_register |-> 0,
      y_register |-> 0,
      negative_flag |-> FALSE,
      overflow_flag |-> FALSE,
      break_flag |-> FALSE,
      decimal_flag |-> FALSE,
      interrupt_flag |-> FALSE,
      zero_flag |-> FALSE,
      carry_flag |-> FALSE,
      stack_pointer |-> 0,
      tia |-> [i \in 0..61 |-> 0],
      ram |-> [i \in 0..127 |-> 0],
      pia |-> [i \in 0..3 |-> 0],
      dummy |-> [i \in {} |-> 0],
      timer_value |-> 0,
      timer_status |-> 0,
      timer_interval |-> 1,
      timer_elapsed_clocks |-> 1,
      cycles_count |-> 0,
      color_cycles_count |-> 0,
      instructions_count |-> 0,
      scanline |-> 0,
      scanline_cycle |-> 0,
      is_vsync |-> FALSE,
      cpu_halt |-> FALSE,
      players_position |-> <<0, 0>>,
      missiles_position |-> <<0, 0>>,
      ball_position |-> 0,
      framebuffer |-> [line \in {} |-> [x \in 0..159 |-> <<0, 0, 0>>]],
      elapsed_time |-> 0,
      remaining_cycles |-> 0,
      timer_block |-> TRUE,
      cartridge |-> cartridge,
      cartridge_writes |-> [i \in {} |-> 0],
      panic |-> "" ]

new(cartridge) ==
    [ pointer_counter |-> 61440,
      accumulator |-> 0,
      x_register |-> 0,
      y_register |-> 0,
      negative_flag |-> TRUE,
      overflow_flag |-> TRUE,
      break_flag |-> TRUE,
      decimal_flag |-> TRUE,
      interrupt_flag |-> TRUE,
      zero_flag |-> TRUE,
      carry_flag |-> TRUE,
      stack_pointer |-> 255,
      tia |-> [i \in 0..61 |-> 0],
      ram |-> [i \in 0..127 |-> 0],
      pia |-> [i \in 0..3 |-> 0],
      dummy |-> [i \in {} |-> 0],
      timer_value |-> 0,
      timer_status |-> 0,
      timer_interval |-> 1,
      timer_elapsed_clocks |-> 1,
      cycles_count |-> 0,
      color_cycles_count |-> 0,
      instructions_count |-> 0,
      scanline |-> 0,
      scanline_cycle |-> 0,
      is_vsync |-> FALSE,
      cpu_halt |-> FALSE,
      players_position |-> <<0, 0>>,
      missiles_position |-> <<0, 0>>,
      ball_position |-> 0,
      framebuffer |-> [line \in {} |-> [x \in 0..159 |-> <<0, 0, 0>>]],
      elapsed_time |-> 0,
      remaining_cycles |-> 0,
      timer_block |-> TRUE,
      cartridge |-> cartridge,
      cartridge_writes |-> [i \in {} |-> 0],
      panic |-> "" ]

\* a Rust panic: the first one is kept, the process is gone afterwards
Panic(c, message) == IF c.panic = "" THEN [c EXCEPT !.panic = message] ELSE c

---------------------------------------------------------------------------
(* The bus: Console::memory and Console::memory_mut return a reference to  *)
(* a cell.  A reference is <<array, index>>; Load and Store dereference.   *)
(* The array `dummy` (8192 zero bytes) is kept sparse: only its non-zero   *)
(* cells are in the domain.  The cartridge memory is the ROM image named   *)
(* by `cartridge` overlaid with the cells written since (cartridge_writes).*)

DummyAt(c, i) == IF i \in DOMAIN c.dummy THEN c.dummy[i] ELSE 0

Load(c, ref) ==
    CASE ref[1] = "tia" -> c.tia[ref[2]]
      [] ref[1] = "ram" -> c.ram[ref[2]]
      [] ref[1] = "pia" -> c.pia[ref[2]]
      [] ref[1] = "timer_value" -> c.timer_value
      [] ref[1] = "timer_status" -> c.timer_status
      [] ref[1] = "dummy" -> DummyAt(c, ref[2])
      [] ref[1] = "cartridge" ->
            IF ref[2] \in DOMAIN c.cartridge_writes THEN c.cartridge_writes[ref[2]]
            ELSE CartridgeMemory(c.cartridge)[ref[2] + 1]
      [] ref[1] = "accumulator" -> c.accumulator
      [] OTHER -> 0

Store(c, ref, v) ==
    CASE ref[1] = "tia" -> [c EXCEPT !.tia[ref[2]] = v]
      [] ref[1] = "ram" -> [c EXCEPT !.ram[ref[2]] = v]
      [] ref[1] = "pia" -> [c EXCEPT !.pia[ref[2]] = v]
      [] ref[1] = "timer_value" -> [c EXCEPT !.timer_value = v]
      [] ref[1] = "timer_status" -> [c EXCEPT !.timer_status = v]
      [] ref[1] = "dummy" ->
            [c EXCEPT !.dummy =
                [i \in (DOMAIN c.dummy \cup (IF v = 0 THEN {} ELSE {ref[2]}))
                       \ (IF v = 0 THEN {ref[2]} ELSE {}) |->
                    IF i = ref[2] THEN v ELSE c.dummy[i]]]
      [] ref[1] = "cartridge" ->
            [c EXCEPT !.cartridge_writes =
                [i \in DOMAIN c.cartridge_writes \cup {ref[2]} |->
                    IF i = ref[2] THEN v ELSE c.cartridge_writes[i]]]
      [] ref[1] = "accumulator" -> [c EXCEPT !.accumulator = v]
      [] OTHER -> c

\* the address is used as it comes
NoMask(index) == index

\* the ROM window 0xF000..0xFFFF is left unmasked
MaskBelowRomWindow(index) == IF index >= 61440 THEN index ELSE index % 8192

MaskIndex(index) == index % 8192

memory(c, index0) ==
    LET index == MaskIndex(index0) IN
    CASE index \in 0..61 -> [c |-> c, ref |-> <<"tia", index>>]
      [] index \in 128..255 -> [c |-> c, ref |-> <<"ram", index - 128>>]
      [] index \in 640..643 -> [c |-> c, ref |-> <<"pia", index - 640>>]
      [] index = 644 -> [c |-> c, ref |-> <<"timer_value", 0>>]
      [] index = 645 ->
            [c |-> [c EXCEPT !.timer_status = ClearBit(@, 6)],
             ref |-> <<"timer_status", 0>>]
      [] index \in 660..663 -> [c |-> c, ref |-> <<"dummy", index>>]
      [] index \in 4096..8191 ->
            IF index - 4096 < Len(CartridgeMemory(c.cartridge))
            THEN [c |-> c, ref |-> <<"cartridge", index - 4096>>]
            ELSE [c |-> Panic(c, "index out of bounds"), ref |-> <<"none", 0>>]
      [] OTHER -> [c |-> c, ref |-> <<"dummy", index>>]

\* WSYNC written without effect
wait_without_halt(c) == c

wait_for_leading_edge_of_horizontal_blank(c) == [c EXCEPT !.cpu_halt = TRUE]

RECURSIVE memory_mut(_, _)

\* `*console.memory_mut(index) = value`
WriteByte(c, index, value) ==
    LET Assign(m) == Store(m.c, m.ref, value) IN Assign(memory_mut(c, index))

\* clear_collision_latches without its last line (CXPPMM)
clear_collision_latches_but_last(c) ==
    LET Zero(d, index) == WriteByte(d, index, 0)
    IN  Zero(Zero(Zero(Zero(Zero(Zero(Zero(c, CXM0P), CXM1P), CXP0FB),
            CXP1FB), CXM0FB), CXM1FB), CXBLPF)

clear_collision_latches(c) ==
    LET Zero(d, index) == WriteByte(d, index, 0)
    IN  Zero(Zero(Zero(Zero(Zero(Zero(Zero(Zero(c, CXM0P), CXM1P), CXP0FB),
            CXP1FB), CXM0FB), CXM1FB), CXBLPF), CXPPMM)

\* the intervals of TIM8T and TIM64T exchanged
TimerIntervalSwapped(index) ==
    CASE index = 660 -> 1
      [] index = 661 -> 64
      [] index = 662 -> 8
      [] index = 663 -> 1024

TimerIntervalOf(index) ==
    CASE index = 660 -> 1
      [] index = 661 -> 8
      [] index = 662 -> 64
      [] index = 663 -> 1024

memory_mut(c, index0) ==
    LET index == MaskIndex(index0) IN
    CASE index \in 0..61 ->
            LET d == CASE index = 2 -> wait_for_leading_edge_of_horizontal_blank(c)
                       [] index = 44 -> clear_collision_latches(c)
                       \* reset_horizontal_sync_counter (3), reset_player_0,
                       \* reset_player_1, reset_missile_0, reset_missile_1,
                       \* reset_ball (16..20), apply_horizontal_motion (42)
                       \* and clear_horizontal_motion_registers (43) have
                       \* no statement in their bodies
                       [] index \in {3, 16, 17, 18, 19, 20, 42, 43} -> c
                       [] OTHER -> c
            IN  [c |-> d, ref |-> <<"tia", index>>]
      [] index \in 128..255 -> [c |-> c, ref |-> <<"ram", index - 128>>]
      [] index \in 640..643 -> [c |-> c, ref |-> <<"pia", index - 640>>]
      [] index = 644 -> [c |-> c, ref |-> <<"timer_value", 0>>]
      [] index = 645 ->
            [c |-> [c EXCEPT !.timer_status = ClearBit(@, 6)],
             ref |-> <<"timer_status", 0>>]
      [] index \in 660..663 ->
            LET Reload(d2) == [c |-> [d2 EXCEPT !.timer_elapsed_clocks = 1],
                               ref |-> <<"timer_value", 0>>]
                ClearUnderflow(m) ==
                    Reload(Store(m.c, m.ref, ClearBit(Load(m.c, m.ref), 7)))
            IN  ClearUnderflow(memory_mut([c EXCEPT !.timer_interval = TimerIntervalOf(index),
                                                    !.timer_block = TRUE], INSTAT))
      \* the ROM arm of memory_mut matches 0xF000..=0xFFFF, after the mask
      [] index \in 61440..65535 -> [c |-> c, ref |-> <<"cartridge", index - 61440>>]
      [] OTHER -> [c |-> c, ref |-> <<"dummy", index>>]

\* `*console.memory(index)`
ReadByte(c, index) ==
    LET Deref(m) == [c |-> m.c, value |-> Load(m.c, m.ref)] IN Deref(memory(c, index))

---------------------------------------------------------------------------
(* The picture: utils.rs, color.rs, playfield.rs and video.rs.  A colour   *)
(* is <<red, green, blue>>, a scanline a function from 0..159 to colours,  *)
(* an array of booleans a sequence (element i of the code is element i + 1 *)
(* here).                                                                   *)

COLUP0 == 6
COLUP1 == 7
COLUPF == 8
COLUBK == 9
CTRLPF == 10
PF0 == 13
PF1 == 14
PF2 == 15

byte_to_boolean_array(value) == [i \in 1..8 |-> Bit(value, i - 1) = 1]

\* <<colour, luminance>>, each the position of the enumerator that
\* hexadecimal_to_color and octal_to_luminance return
color_and_luminance(value) == <<(value \div 16) % 16, (value \div 2) % 8>>

to_rgb(color_luminance) ==
    LET Table ==
        <<
           <<<<0, 0, 0>>, <<64, 64, 64>>, <<108, 108, 108>>, <<144, 144, 144>>,
             <<176, 176, 176>>, <<200, 200, 200>>, <<220, 220, 220>>, <<236, 236, 236>>>>,
           <<<<68, 68, 0>>, <<100, 100, 16>>, <<132, 132, 36>>, <<160, 160, 52>>,
             <<184, 184, 64>>, <<208, 208, 80>>, <<232, 232, 92>>, <<252, 252, 104>>>>,
           <<<<112, 40, 0>>, <<132, 68, 20>>, <<152, 92, 40>>, <<172, 120, 60>>,
             <<188, 140, 76>>, <<204, 160, 92>>, <<220, 180, 104>>, <<236, 200, 120>>>>,
           <<<<132, 24, 0>>, <<152, 52, 24>>, <<172, 80, 48>>, <<192, 104, 72>>,
             <<208, 128, 92>>, <<224, 148, 112>>, <<236, 168, 128>>, <<252, 188, 148>>>>,
           <<<<132, 24, 0>>, <<156, 32, 32>>, <<176, 60, 60>>, <<192, 88, 88>>,
             <<208, 112, 112>>, <<224, 136, 136>>, <<236, 160, 160>>, <<252, 180, 180>>>>,
           <<<<120, 0, 92>>, <<140, 32, 116>>, <<160, 60, 136>>, <<140, 88, 184>>,
             <<192, 112, 176>>, <<208, 132, 192>>, <<220, 156, 208>>, <<236, 176, 224>>>>,
           <<<<20, 0, 132>>, <<48, 32, 152>>, <<76, 60, 172>>, <<104, 88, 192>>,
             <<124, 112, 208>>, <<148, 136, 224>>, <<168, 160, 236>>, <<188, 180, 252>>>>,
           <<<<0, 0, 136>>, <<28, 32, 156>>, <<56, 64, 176>>, <<80, 92, 192>>,
             <<104, 116, 208>>, <<124, 140, 224>>, <<144, 164, 236>>, <<164, 184, 252>>>>,
           <<<<0, 24, 124>>, <<28, 56, 144>>, <<56, 84, 168>>, <<80, 112, 188>>,
             <<104, 136, 204>>, <<124, 156, 220>>, <<144, 180, 236>>, <<164, 200, 252>>>>,
           <<<<0, 24, 124>>, <<28, 56, 144>>, <<56, 84, 168>>, <<80, 112, 188>>,
             <<104, 136, 204>>, <<124, 156, 220>>, <<144, 180, 236>>, <<164, 200, 252>>>>,
           <<<<0, 44, 92>>, <<28, 76, 120>>, <<56, 104, 144>>, <<80, 132, 172>>,
             <<104, 156, 192>>, <<124, 180, 212>>, <<144, 204, 232>>, <<164, 224, 252>>>>,
           <<<<0, 60, 0>>, <<32, 92, 32>>, <<64, 124, 64>>, <<92, 156, 92>>,
             <<116, 180, 116>>, <<140, 208, 140>>, <<164, 228, 164>>, <<184, 252, 184>>>>,
           <<<<0, 60, 44>>, <<28, 92, 72>>, <<56, 124, 100>>, <<80, 156, 128>>,
             <<104, 180, 148>>, <<124, 208, 172>>, <<144, 228, 192>>, <<164, 252, 212>>>>,
           <<<<20, 56, 0>>, <<52, 92, 28>>, <<80, 124, 56>>, <<108, 152, 80>>,
             <<132, 180, 104>>, <<156, 204, 124>>, <<180, 228, 144>>, <<200, 252, 164>>>>,
           <<<<44, 48, 0>>, <<76, 80, 28>>, <<104, 112, 52>>, <<132, 140, 76>>,
             <<156, 168, 100>>, <<180, 192, 120>>, <<204, 212, 136>>, <<224, 236, 156>>>>,
           <<<<68, 40, 0>>, <<100, 72, 24>>, <<132, 104, 48>>, <<160, 132, 68>>,
             <<184, 156, 88>>, <<208, 180, 108>>, <<232, 204, 124>>, <<252, 224, 140>>>>
        >>
    IN  Table[color_luminance[1] + 1][color_luminance[2] + 1]

background_color(c) == to_rgb(color_and_luminance(ReadByte(c, COLUBK).value))

playfield_color(c) == to_rgb(color_and_luminance(ReadByte(c, COLUPF).value))

player0_color(c) == to_rgb(color_and_luminance(ReadByte(c, COLUP0).value))

player1_color(c) == to_rgb(color_and_luminance(ReadByte(c, COLUP1).value))

playfield_mirror_mode(c) == Bit(ReadByte(c, CTRLPF).value, 0) # 0

playfield_score_mode(c) == Bit(ReadByte(c, CTRLPF).value, 1) # 0

playfield_priority(c) == Bit(ReadByte(c, CTRLPF).value, 2) # 0

playfield_bits(c) ==
    LET Bits(pf0_bits, pf1_bits, pf2_bits) ==
            <<pf0_bits[5], pf0_bits[6], pf0_bits[7], pf0_bits[8],
              pf1_bits[1], pf1_bits[2], pf1_bits[3], pf1_bits[4],
              pf1_bits[5], pf1_bits[6], pf1_bits[7], pf1_bits[8],
              pf2_bits[1], pf2_bits[2], pf2_bits[3], pf2_bits[4],
              pf2_bits[5], pf2_bits[6], pf2_bits[7], pf2_bits[8]>>
    IN  Bits(byte_to_boolean_array(ReadByte(c, PF0).value),
             byte_to_boolean_array(ReadByte(c, PF1).value),
             byte_to_boolean_array(ReadByte(c, PF2).value))

\* draw_playfield whose right half is never mirrored
draw_playfield_repeated(c, scanline) ==
    LET Draw(bits, left, right) ==
            [x \in 0..159 |->
                IF bits[((x % 80) \div 4) + 1]
                THEN (IF x < 80 THEN left ELSE right)
                ELSE scanline[x]]
    IN  Draw(playfield_bits(c),
             IF playfield_score_mode(c) THEN player0_color(c) ELSE playfield_color(c),
             IF playfield_score_mode(c) THEN player1_color(c) ELSE playfield_color(c))

\* the left loop colours pixels 4 index .. 4 index + 3 for every set bit,
\* the right loop pixels 80 + 4 index .. 80 + 4 index + 3, of the bits
\* enumerated in reverse in mirror mode
draw_playfield(c, scanline) ==
    LET Right(line, bits, mirror_mode, color) ==
            [x \in 0..159 |->
                IF x >= 80 /\ (IF mirror_mode THEN bits[20 - ((x - 80) \div 4)]
                               ELSE bits[((x - 80) \div 4) + 1])
                THEN color ELSE line[x]]
        Left(bits, color) ==
            [x \in 0..159 |->
                IF x < 80 /\ bits[(x \div 4) + 1] THEN color ELSE scanline[x]]
        Draw(bits, score_mode) ==
            Right(Left(bits, IF score_mode THEN player0_color(c) ELSE playfield_color(c)),
                  bits, playfield_mirror_mode(c),
                  IF score_mode THEN player1_color(c) ELSE playfield_color(c))
    IN  Draw(playfield_bits(c), playfield_score_mode(c))

\* draw_sprites, draw_missiles and draw_ball have empty bodies
create_scanline(c) ==
    LET Filled(color) == [x \in 0..159 |-> color]
        Compose(scanline) ==
            IF playfield_priority(c) THEN draw_playfield(c, scanline)
            ELSE draw_playfield(c, scanline)
    IN  Compose(Filled(background_color(c)))

\* The framebuffer is kept as the rows that differ from the black row the
\* console is constructed with: a function from a subset of 0..191 to
\* scanlines; a row outside its domain is black.
BlackScanline == [x \in 0..159 |-> <<0, 0, 0>>]

BlackFramebuffer == [line \in {} |-> BlackScanline]

\* self.framebuffer[line]
framebuffer_row(c, line) ==
    IF line \in DOMAIN c.framebuffer THEN c.framebuffer[line] ELSE BlackScanline

\* self.framebuffer[line] = scanline
store_framebuffer_row(c, line, scanline) ==
    [c EXCEPT !.framebuffer =
        IF scanline = BlackScanline
        THEN [l \in (DOMAIN @) \ {line} |-> @[l]]
        ELSE [l \in (DOMAIN @) \cup {line} |-> IF l = line THEN scanline ELSE @[l]]]

---------------------------------------------------------------------------
(* The PIA timer and the TIA beam.                                         *)

\* the decrement period one clock too long
update_timer_slow(c) ==
    LET clocks == c.timer_elapsed_clocks - 1 IN
    IF clocks = 0 THEN
        LET underflow == c.timer_value = 0
            interval == IF underflow THEN 1 ELSE c.timer_interval
        IN  [c EXCEPT !.timer_interval = interval,
                      !.timer_status = IF underflow THEN SetBit(SetBit(@, 6), 7) ELSE @,
                      !.timer_value = (@ + 255) % 256,
                      !.timer_elapsed_clocks = interval + 1]
    ELSE [c EXCEPT !.timer_elapsed_clocks = clocks]

\* the underflow leaves INSTAT alone
update_timer_without_status(c) ==
    LET clocks == c.timer_elapsed_clocks - 1 IN
    IF clocks = 0 THEN
        LET interval == IF c.timer_value = 0 THEN 1 ELSE c.timer_interval
        IN  [c EXCEPT !.timer_interval = interval,
                      !.timer_value = (@ + 255) % 256,
                      !.timer_elapsed_clocks = interval]
    ELSE [c EXCEPT !.timer_elapsed_clocks = clocks]

\* timer_elapsed_clocks is a u32; a value above 2^31 - 1 is written as the
\* negative number congruent to it modulo 2^32, so 0 - 1 wraps to -1
update_timer(c) ==
    LET clocks == c.timer_elapsed_clocks - 1 IN
    IF c.timer_elapsed_clocks = 0 /\ overflow_checks THEN
        Panic(c, "attempt to subtract with overflow")
    ELSE IF clocks = 0 THEN
        LET underflow == c.timer_value = 0
            interval == IF underflow THEN 1 ELSE c.timer_interval
        IN  [c EXCEPT !.timer_interval = interval,
                      !.timer_status = IF underflow THEN SetBit(SetBit(@, 6), 7) ELSE @,
                      !.timer_value = (@ + 255) % 256,
                      !.timer_elapsed_clocks = interval]
    ELSE [c EXCEPT !.timer_elapsed_clocks = clocks]

\* the line ends one color cycle late
execute_color_cycle_late_wrap(c) ==
    LET cycle == c.scanline_cycle + 1 IN
    IF cycle > HORIZONTAL_CYCLES THEN
        LET line == c.scanline + 1 IN
        [c EXCEPT !.cpu_halt = FALSE,
                  !.scanline = IF line >= VERTICAL_LINES THEN 0 ELSE line,
                  !.scanline_cycle = 0]
    ELSE [c EXCEPT !.scanline_cycle = cycle]

\* the end of the line does not release the CPU
execute_color_cycle_keeps_halt(c) ==
    LET cycle == c.scanline_cycle + 1 IN
    IF cycle >= HORIZONTAL_CYCLES THEN
        LET line == c.scanline + 1 IN
        [c EXCEPT !.scanline = IF line >= VERTICAL_LINES THEN 0 ELSE line,
                  !.scanline_cycle = 0]
    ELSE [c EXCEPT !.scanline_cycle = cycle]

\* create_scanline reads the colour and playfield registers only, so the line
\* composed after `self.scanline += 1` is the one composed from c
execute_color_cycle(c) ==
    IF c.scanline_cycle + 1 >= HORIZONTAL_CYCLES THEN
        IF c.scanline + 1 >= VERTICAL_LINES THEN
            [c EXCEPT !.cpu_halt = FALSE,
                      !.framebuffer = BlackFramebuffer,
                      !.scanline = 0,
                      !.scanline_cycle = 0]
        ELSE IF c.scanline + 1 >= 3 + 37 /\ c.scanline + 1 < 3 + 37 + 192 THEN
            [store_framebuffer_row(c, c.scanline + 1 - (3 + 37), create_scanline(c))
                EXCEPT !.cpu_halt = FALSE,
                       !.scanline = @ + 1,
                       !.scanline_cycle = 0]
        ELSE
            [c EXCEPT !.cpu_halt = FALSE,
                      !.scanline = @ + 1,
                      !.scanline_cycle = 0]
    ELSE [c EXCEPT !.scanline_cycle = @ + 1]

\* two color cycles for one CPU cycle
execute_cycle_two_color_cycles(c) ==
    LET Count(c4) == [c4 EXCEPT !.cycles_count = @ + 1, !.color_cycles_count = @ + 3]
        Beam(c3) == Count(execute_color_cycle(execute_color_cycle(c3)))
        Vsync(m) ==
            LET vsync_bit == Bit(Load(m.c, m.ref), 1) = 1 IN
            Beam([(IF m.c.is_vsync /\ vsync_bit = FALSE
                   THEN [m.c EXCEPT !.scanline = 2] ELSE m.c)
                     EXCEPT !.is_vsync = vsync_bit])
        Timer(c1) == Vsync(memory(c1, VSYNC))
    IN  Timer(IF ~c.timer_block THEN update_timer(c) ELSE c)

\* the timer ticks whatever timer_block says
execute_cycle_unblocked(c) ==
    LET Count(c4) == [c4 EXCEPT !.cycles_count = @ + 1, !.color_cycles_count = @ + 3]
        Beam(c3) == Count(execute_color_cycle(execute_color_cycle(execute_color_cycle(c3))))
        Vsync(m) ==
            LET vsync_bit == Bit(Load(m.c, m.ref), 1) = 1 IN
            Beam([(IF m.c.is_vsync /\ vsync_bit = FALSE
                   THEN [m.c EXCEPT !.scanline = 2] ELSE m.c)
                     EXCEPT !.is_vsync = vsync_bit])
        Timer(c1) == Vsync(memory(c1, VSYNC))
    IN  Timer(update_timer(c))

\* execute_cycle without the adjustment of scanline when VSYNC is switched off
execute_cycle_without_resync(c) ==
    LET Count(c4) == [c4 EXCEPT !.cycles_count = @ + 1, !.color_cycles_count = @ + 3]
        Beam(c3) == Count(execute_color_cycle(execute_color_cycle(execute_color_cycle(c3))))
        Vsync(m) == Beam([m.c EXCEPT !.is_vsync = (Bit(Load(m.c, m.ref), 1) = 1)])
        Timer(c1) == Vsync(memory(c1, VSYNC))
    IN  Timer(IF ~c.timer_block THEN update_timer(c) ELSE c)

execute_cycle(c) ==
    LET Count(c4) == [c4 EXCEPT !.cycles_count = @ + 1, !.color_cycles_count = @ + 3]
        Beam(c3) == Count(execute_color_cycle(execute_color_cycle(execute_color_cycle(c3))))
        Vsync(m) ==
            LET vsync_bit == Bit(Load(m.c, m.ref), 1) = 1 IN
            Beam([(IF m.c.is_vsync /\ vsync_bit = FALSE
                   THEN [m.c EXCEPT !.scanline = 2] ELSE m.c)
                     EXCEPT !.is_vsync = vsync_bit])
        Timer(c1) == Vsync(memory(c1, VSYNC))
    IN  Timer(IF ~c.timer_block THEN update_timer(c) ELSE c)

---------------------------------------------------------------------------
(* Program counter and stack helpers of Console.                           *)
(* An intermediate result that is used more than once is bound as the      *)
(* parameter of a local operator, so that it is computed once.             *)

\* an arithmetic overflow panics when the build checks overflows
Checked(c, fits, message) ==
    IF fits \/ ~overflow_checks THEN c ELSE Panic(c, message)

pointed_value(c) == memory(c, c.pointer_counter)

advance_pointer(c) ==
    LET Fetch(c2) == memory(c2, c2.pointer_counter).c
        Increment(c1) == Fetch([c1 EXCEPT !.pointer_counter = (@ + 1) % 65536])
    IN  Increment(Checked(c, c.pointer_counter < 65535, "attempt to add with overflow"))

\* push_value without the store: only the stack pointer moves
push_value_without_store(c, value) ==
    [(IF c.stack_pointer # 121 THEN c ELSE Panic(c, "cannot push value; stack is full"))
        EXCEPT !.stack_pointer = (@ + 255) % 256]

push_value(c, value) ==
    LET Decrement(c3) == [c3 EXCEPT !.stack_pointer = (@ + 255) % 256]
        Check(c2) ==
            Decrement(Checked(c2, c2.stack_pointer > 0, "attempt to subtract with overflow"))
        Write(c1) == Check(WriteByte(c1, c1.stack_pointer, value))
    IN  Write(IF c.stack_pointer # 121 THEN c
              ELSE Panic(c, "cannot push value; stack is full"))

pop_value(c) ==
    LET Read(c2) == ReadByte(c2, c2.stack_pointer)
        Increment(c1) == Read([c1 EXCEPT !.stack_pointer = (@ + 1) % 256])
    IN  Increment(IF c.stack_pointer # 255 THEN c
                  ELSE Panic(c, "cannot pop value; stack is empty"))

---------------------------------------------------------------------------
(* Addressing modes (src/src/addressing_mode.rs).                          *)

relative(c) ==
    LET Signed(r) ==
            [c |-> r.c, operand |-> IF r.value > 127 THEN r.value - 256 ELSE r.value]
    IN  Signed(ReadByte(advance_pointer(c), c.pointer_counter))

immediate(c) == [c |-> advance_pointer(c), index |-> c.pointer_counter]

zero_page(c) ==
    LET At(p) == [c |-> advance_pointer(p.c), index |-> Load(p.c, p.ref)]
    IN  At(pointed_value(c))

zero_page_x(c) ==
    LET At(p) == [c |-> advance_pointer(p.c),
                  index |-> (Load(p.c, p.ref) + p.c.x_register) % 256]
    IN  At(pointed_value(c))

zero_page_y(c) ==
    LET At(p) == [c |-> advance_pointer(p.c),
                  index |-> (Load(p.c, p.ref) + p.c.y_register) % 256]
    IN  At(pointed_value(c))

\* the two operand bytes LL HH that follow the opcode
OperandBytes(c) ==
    LET High(ll, p2) == [c |-> advance_pointer(p2.c), ll |-> ll, hh |-> Load(p2.c, p2.ref)]
        Low(p1) == High(Load(p1.c, p1.ref), pointed_value(advance_pointer(p1.c)))
    IN  Low(pointed_value(c))

absolute(c) ==
    LET Join(b) == [c |-> b.c, index |-> from_le_bytes(b.ll, b.hh)]
    IN  Join(OperandBytes(c))

AbsoluteIndexed(c, register) ==
    LET Join(b) ==
            LET sum == b.ll + register IN
            IF sum < 256
            THEN [c |-> b.c, index |-> from_le_bytes(sum, b.hh), crossed |-> FALSE]
            ELSE [c |-> b.c, index |-> from_le_bytes(sum % 256, (b.hh + 1) % 256),
                  crossed |-> TRUE]
    IN  Join(OperandBytes(c))

absolute_x(c) == AbsoluteIndexed(c, c.x_register)

absolute_y(c) == AbsoluteIndexed(c, c.y_register)

indexed_indirect(c) ==
    LET High(l, h) == [c |-> h.c, index |-> from_le_bytes(l.value, h.value)]
        Low(indirect_index, l) == High(l, ReadByte(l.c, indirect_index + 1))
        Pointer(p) ==
            LET indirect_index == (Load(p.c, p.ref) + p.c.x_register) % 256 IN
            Low(indirect_index, ReadByte(advance_pointer(p.c), indirect_index))
    IN  Pointer(pointed_value(c))

indirect_indexed(c) ==
    LET High(l, h) ==
            [c |-> h.c, index |-> from_le_bytes(l.value, h.value), crossed |-> FALSE]
        Low(indirect_index, l) == High(l, ReadByte(l.c, indirect_index + 1))
        Indexed(o) ==
            LET indirect_index == (o.value + o.c.y_register) % 256 IN
            Low(indirect_index, ReadByte(o.c, indirect_index))
        Pointer(p) == Indexed(ReadByte(advance_pointer(p.c), Load(p.c, p.ref)))
    IN  Pointer(pointed_value(c))

---------------------------------------------------------------------------
(* Instructions (src/src/instruction.rs).  Each returns the console and    *)
(* the number of cycles it took.                                           *)

update_zero_and_negative_flags(c, value) ==
    [c EXCEPT !.zero_flag = (value = 0), !.negative_flag = (value > 127)]

\* the operand of an addressing mode `o` with the cycles of the opcode
WithCycles(o, cycles) == [c |-> o.c, index |-> o.index, cycles |-> cycles]

\* one cycle more when the indexed address crossed a page
WithCrossing(o, cycles) ==
    [c |-> o.c, index |-> o.index, cycles |-> IF o.crossed THEN cycles + 1 ELSE cycles]

NoOperand(c, message) == [c |-> Panic(c, message), index |-> 0, cycles |-> 0]

\* `*console.memory(index)` of the operand
ReadOperand(o) ==
    LET Deref(m) == [c |-> m.c, value |-> Load(m.c, m.ref), cycles |-> o.cycles]
    IN  Deref(memory(o.c, o.index))

\* `*console.memory_mut(index)` of the operand, read
ReadOperandMut(o) ==
    LET Deref(m) == [c |-> m.c, value |-> Load(m.c, m.ref), cycles |-> o.cycles]
    IN  Deref(memory_mut(o.c, o.index))

\* `console.memory_mut(index)` of the operand, as a cell to modify
OperandCell(o) ==
    LET Cell(m) == [c |-> m.c, ref |-> m.ref, cycles |-> o.cycles]
    IN  Cell(memory_mut(o.c, o.index))

\* operand and cycles of the eight-mode instructions ADC AND CMP EOR LDA ORA;
\* the addressing mode is in the low five bits of the opcode
AluOperand(c, opcode) ==
    LET mode == opcode % 32 IN
    CASE mode = 9  -> WithCycles(immediate(c), 2)
      [] mode = 5  -> WithCycles(zero_page(c), 3)
      [] mode = 21 -> WithCycles(zero_page_x(c), 4)
      [] mode = 13 -> WithCycles(absolute(c), 4)
      [] mode = 29 -> WithCrossing(absolute_x(c), 4)
      [] mode = 25 -> WithCrossing(absolute_y(c), 4)
      [] mode = 1  -> WithCycles(indexed_indirect(c), 6)
      [] mode = 17 -> WithCrossing(indirect_indexed(c), 5)
      [] OTHER -> NoOperand(c, "opcode not associated to instruction")

\* ADC whose carry is the overflow of A + M only
adc_instruction_first_overflow(c, opcode) ==
    LET Add(r) ==
            LET sum_a == r.c.accumulator + r.value
                new_value == (sum_a + (IF r.c.carry_flag THEN 1 ELSE 0)) % 256
            IN  [c |-> update_zero_and_negative_flags(
                           [r.c EXCEPT !.accumulator = new_value,
                                       !.carry_flag = (sum_a > 255)],
                           new_value),
                 cycles |-> r.cycles]
    IN  Add(ReadOperandMut(AluOperand(c, opcode)))

adc_instruction(c, opcode) ==
    LET Add(r) ==
            LET sum_a == r.c.accumulator + r.value
                sum_b == (sum_a % 256) + (IF r.c.carry_flag THEN 1 ELSE 0)
                new_value == sum_b % 256
            IN  [c |-> update_zero_and_negative_flags(
                           [r.c EXCEPT !.accumulator = new_value,
                                       !.carry_flag = (sum_a > 255) \/ (sum_b > 255)],
                           new_value),
                 cycles |-> r.cycles]
    IN  Add(ReadOperandMut(AluOperand(c, opcode)))

\* load `value` into the accumulator and set the flags from it
SetAccumulator(r, value) ==
    [c |-> update_zero_and_negative_flags([r.c EXCEPT !.accumulator = value], value),
     cycles |-> r.cycles]

and_instruction(c, opcode) ==
    LET And(r) == SetAccumulator(r, BitAnd(r.value, r.c.accumulator))
    IN  And(ReadOperandMut(AluOperand(c, opcode)))

\* the comparison shared by CMP, CPX and CPY
CompareRegister(r, register) ==
    [c |-> update_zero_and_negative_flags(
               [r.c EXCEPT !.carry_flag = (register >= r.value)],
               (register - r.value + 256) % 256),
     cycles |-> r.cycles]

cmp_instruction(c, opcode) ==
    LET Compare(r) == CompareRegister(r, r.c.accumulator)
    IN  Compare(ReadOperand(AluOperand(c, opcode)))

eor_instruction(c, opcode) ==
    LET Eor(r) == SetAccumulator(r, BitXor(r.c.accumulator, r.value))
    IN  Eor(ReadOperand(AluOperand(c, opcode)))

lda_instruction(c, opcode) ==
    LET Lda(r) == SetAccumulator(r, r.value)
    IN  Lda(ReadOperand(AluOperand(c, opcode)))

ora_instruction(c, opcode) ==
    LET Ora(r) == SetAccumulator(r, BitOr(r.c.accumulator, r.value))
    IN  Ora(ReadOperand(AluOperand(c, opcode)))

bit_instruction(c, opcode) ==
    LET Test(r) ==
            [c |-> [r.c EXCEPT !.negative_flag = (Bit(r.value, 7) = 1),
                               !.overflow_flag = (Bit(r.value, 6) = 1),
                               !.zero_flag = (BitAnd(r.c.accumulator, r.value) = 0)],
             cycles |-> r.cycles]
    IN  Test(ReadOperandMut(IF opcode = 36 THEN WithCycles(zero_page(c), 3)
                            ELSE WithCycles(absolute(c), 4)))

cpx_instruction(c, opcode) ==
    LET Compare(r) == CompareRegister(r, r.c.x_register)
    IN  CASE opcode = 224 -> Compare(ReadOperand(WithCycles(immediate(c), 2)))
          [] opcode = 228 -> Compare(ReadOperand(WithCycles(zero_page(c), 3)))
          [] opcode = 236 -> Compare(ReadOperand(WithCycles(absolute(c), 4)))
          [] OTHER -> [c |-> Panic(c, "opcode not associated to CPX instruction"),
                       cycles |-> 0]

cpy_instruction(c, opcode) ==
    LET Compare(r) == CompareRegister(r, r.c.y_register)
    IN  CASE opcode = 192 -> Compare(ReadOperand(WithCycles(immediate(c), 2)))
          [] opcode = 196 -> Compare(ReadOperand(WithCycles(zero_page(c), 3)))
          [] opcode = 204 -> Compare(ReadOperand(WithCycles(absolute(c), 4)))
          [] OTHER -> [c |-> Panic(c, "opcode not associated to CPY instruction"),
                       cycles |-> 0]

\* operand and cycles of the read-modify-write instructions on memory
\* (ASL LSR ROL ROR DEC INC), mode in the low five bits
RmwOperand(c, opcode) ==
    LET mode == opcode % 32 IN
    CASE mode = 6  -> WithCycles(zero_page(c), 5)
      [] mode = 22 -> WithCycles(zero_page_x(c), 6)
      [] mode = 14 -> WithCycles(absolute(c), 6)
      [] mode = 30 -> WithCycles(absolute_x(c), 7)
      [] OTHER -> NoOperand(c, "opcode not associated to instruction")

\* the operand of a shift: the accumulator (mode 0x0A) or a memory cell
ShiftOperand(c, opcode) ==
    IF opcode % 32 = 10
    THEN [c |-> c, ref |-> <<"accumulator", 0>>, cycles |-> 2]
    ELSE OperandCell(RmwOperand(c, opcode))

shift_left(value, bit_in) ==
    [value |-> ((value * 2) % 256) + (IF bit_in THEN 1 ELSE 0), bit_out |-> value > 127]

shift_right(value, bit_in) ==
    [value |-> (value \div 2) + (IF bit_in THEN 128 ELSE 0), bit_out |-> value % 2 = 1]

\* store `value` in the cell `s` and set the zero/negative flags from it
StoreResult(s, value) ==
    LET Flags(c1) == [c |-> update_zero_and_negative_flags(c1, Load(c1, s.ref)),
                      cycles |-> s.cycles]
    IN  Flags(Store(s.c, s.ref, value))

\* store the shifted value, the carry and the zero/negative flags
ShiftResult(s, shifted) ==
    LET Carry(r) == [c |-> [r.c EXCEPT !.carry_flag = shifted.bit_out], cycles |-> r.cycles]
    IN  Carry(StoreResult(s, shifted.value))

asl_instruction(c, opcode) ==
    LET Shift(s) == ShiftResult(s, shift_left(Load(s.c, s.ref), FALSE))
    IN  Shift(ShiftOperand(c, opcode))

lsr_instruction(c, opcode) ==
    LET Shift(s) == ShiftResult(s, shift_right(Load(s.c, s.ref), FALSE))
    IN  Shift(ShiftOperand(c, opcode))

rol_instruction(c, opcode) ==
    LET Shift(s) == ShiftResult(s, shift_left(Load(s.c, s.ref), s.c.carry_flag))
    IN  Shift(ShiftOperand(c, opcode))

ror_instruction(c, opcode) ==
    LET Shift(s) == ShiftResult(s, shift_right(Load(s.c, s.ref), s.c.carry_flag))
    IN  Shift(ShiftOperand(c, opcode))

dec_instruction(c, opcode) ==
    LET Decrement(s) == StoreResult(s, (Load(s.c, s.ref) + 255) % 256)
    IN  Decrement(OperandCell(RmwOperand(c, opcode)))

inc_instruction(c, opcode) ==
    LET Increment(s) == StoreResult(s, (Load(s.c, s.ref) + 1) % 256)
    IN  Increment(OperandCell(RmwOperand(c, opcode)))

\* the body shared by the eight conditional branches; `r` is the result of
\* relative(c) and `taken` the test of the flag
Branch(r, taken) ==
    IF ~taken THEN [c |-> r.c, cycles |-> 2]
    ELSE
        LET page == HighByte(r.c.pointer_counter)
            target == IF r.operand > 0
                      THEN (r.c.pointer_counter + r.operand) % 65536
                      ELSE (r.c.pointer_counter - ((0 - r.operand) % 256) + 65536) % 65536
        IN  \* `!(operand as u8) + 1` overflows the u8 when operand = 0
            [c |-> [(IF r.operand > 0 THEN r.c
                     ELSE Checked(r.c, r.operand # 0, "attempt to add with overflow"))
                       EXCEPT !.pointer_counter = target],
             cycles |-> IF HighByte(target) = page THEN 3 ELSE 4]

bcc_instruction(c, opcode) ==
    LET Test(r) == Branch(r, r.c.carry_flag = FALSE) IN Test(relative(c))

bcs_instruction(c, opcode) ==
    LET Test(r) == Branch(r, r.c.carry_flag = TRUE) IN Test(relative(c))

beq_instruction(c, opcode) ==
    LET Test(r) == Branch(r, r.c.zero_flag = TRUE) IN Test(relative(c))

bmi_instruction(c, opcode) ==
    LET Test(r) == Branch(r, r.c.negative_flag = TRUE) IN Test(relative(c))

bne_instruction(c, opcode) ==
    LET Test(r) == Branch(r, r.c.zero_flag = FALSE) IN Test(relative(c))

bpl_instruction(c, opcode) ==
    LET Test(r) == Branch(r, r.c.negative_flag = FALSE) IN Test(relative(c))

bvc_instruction(c, opcode) ==
    LET Test(r) == Branch(r, r.c.overflow_flag = FALSE) IN Test(relative(c))

bvs_instruction(c, opcode) ==
    LET Test(r) == Branch(r, r.c.overflow_flag = TRUE) IN Test(relative(c))

brk_instruction(c, opcode) == [c |-> c, cycles |-> 0]

rti_instruction(c, opcode) == [c |-> c, cycles |-> 0]

sbc_instruction(c, opcode) == [c |-> c, cycles |-> 0]

nop_instruction(c, opcode) == [c |-> c, cycles |-> 2]

clc_instruction(c, opcode) == [c |-> [c EXCEPT !.carry_flag = FALSE], cycles |-> 2]

cld_instruction(c, opcode) == [c |-> [c EXCEPT !.decimal_flag = FALSE], cycles |-> 2]

cli_instruction(c, opcode) == [c |-> [c EXCEPT !.interrupt_flag = FALSE], cycles |-> 2]

clv_instruction(c, opcode) == [c |-> [c EXCEPT !.overflow_flag = FALSE], cycles |-> 2]

sec_instruction(c, opcode) == [c |-> [c EXCEPT !.carry_flag = TRUE], cycles |-> 2]

sed_instruction(c, opcode) == [c |-> [c EXCEPT !.decimal_flag = TRUE], cycles |-> 2]

sei_instruction(c, opcode) == [c |-> [c EXCEPT !.interrupt_flag = TRUE], cycles |-> 2]

dex_instruction(c, opcode) ==
    LET v == (c.x_register + 255) % 256 IN
    [c |-> update_zero_and_negative_flags([c EXCEPT !.x_register = v], v), cycles |-> 2]

dey_instruction(c, opcode) ==
    LET v == (c.y_register + 255) % 256 IN
    [c |-> update_zero_and_negative_flags([c EXCEPT !.y_register = v], v), cycles |-> 2]

inx_instruction(c, opcode) ==
    LET v == (c.x_register + 1) % 256 IN
    [c |-> update_zero_and_negative_flags([c EXCEPT !.x_register = v], v), cycles |-> 2]

iny_instruction(c, opcode) ==
    LET v == (c.y_register + 1) % 256 IN
    [c |-> update_zero_and_negative_flags([c EXCEPT !.y_register = v], v), cycles |-> 2]

jmp_instruction(c, opcode) ==
    LET Jump(o) == [c |-> [o.c EXCEPT !.pointer_counter = o.index], cycles |-> 3]
        High(l, h) ==
            [c |-> [h.c EXCEPT !.pointer_counter = from_le_bytes(l.value, h.value)],
             cycles |-> 5]
        Low(o, l) ==
            High(l, ReadByte(Checked(l.c, o.index < 65535, "attempt to add with overflow"),
                             (o.index + 1) % 65536))
        Indirect(o) == Low(o, ReadByte(o.c, o.index))
    IN  IF opcode = 76 THEN Jump(absolute(c)) ELSE Indirect(absolute(c))

\* JSR pushing the address after its operand (the line commented out in
\* jsr_instruction) instead of that address minus one
jsr_instruction_pushing_next(c, opcode) ==
    LET Call(o) ==
            [c |-> [push_value(push_value(o.c, HighByte(o.c.pointer_counter)),
                               LowByte(o.c.pointer_counter))
                       EXCEPT !.pointer_counter = o.index],
             cycles |-> 6]
    IN  Call(absolute(c))

jsr_instruction(c, opcode) ==
    LET Push(c1) ==
            LET return == (c1.pointer_counter + 65535) % 65536 IN
            push_value(push_value(c1, HighByte(return)), LowByte(return))
        Call(o) ==
            [c |-> [Push(Checked(o.c, o.c.pointer_counter > 0,
                                 "attempt to subtract with overflow"))
                       EXCEPT !.pointer_counter = o.index],
             cycles |-> 6]
    IN  Call(absolute(c))

rts_instruction(c, opcode) ==
    LET Return(l, h) ==
            LET address == from_le_bytes(l.value, h.value) IN
            [c |-> [Checked(h.c, address < 65535, "attempt to add with overflow")
                       EXCEPT !.pointer_counter = (address + 1) % 65536],
             cycles |-> 6]
        High(l) == Return(l, pop_value(l.c))
    IN  High(pop_value(c))

ldx_instruction(c, opcode) ==
    LET Ldx(r) ==
            [c |-> update_zero_and_negative_flags([r.c EXCEPT !.x_register = r.value],
                                                  r.value),
             cycles |-> r.cycles]
    IN  Ldx(ReadOperand(
            CASE opcode = 162 -> WithCycles(immediate(c), 2)
              [] opcode = 166 -> WithCycles(zero_page(c), 3)
              [] opcode = 182 -> WithCycles(zero_page_y(c), 4)
              [] opcode = 174 -> WithCycles(absolute(c), 4)
              [] opcode = 190 -> WithCrossing(absolute_y(c), 4)
              [] OTHER -> NoOperand(c, "opcode not associated to LDX instruction")))

ldy_instruction(c, opcode) ==
    LET Ldy(r) ==
            [c |-> update_zero_and_negative_flags([r.c EXCEPT !.y_register = r.value],
                                                  r.value),
             cycles |-> r.cycles]
    IN  Ldy(ReadOperand(
            CASE opcode = 160 -> WithCycles(immediate(c), 2)
              [] opcode = 164 -> WithCycles(zero_page(c), 3)
              [] opcode = 180 -> WithCycles(zero_page_x(c), 4)
              [] opcode = 172 -> WithCycles(absolute(c), 4)
              [] opcode = 188 -> WithCrossing(absolute_x(c), 4)
              [] OTHER -> NoOperand(c, "opcode not associated to LDY instruction")))

pha_instruction(c, opcode) == [c |-> push_value(c, c.accumulator), cycles |-> 3]

\* PHP as the 6502 does it: bit 5 of the pushed byte set
php_instruction_with_bit_5(c, opcode) ==
    [c |-> push_value(c, 32 + (IF c.negative_flag THEN 128 ELSE 0)
                            + (IF c.overflow_flag THEN 64 ELSE 0)
                            + (IF c.break_flag THEN 16 ELSE 0)
                            + (IF c.decimal_flag THEN 8 ELSE 0)
                            + (IF c.interrupt_flag THEN 4 ELSE 0)
                            + (IF c.zero_flag THEN 2 ELSE 0)
                            + (IF c.carry_flag THEN 1 ELSE 0)),
     cycles |-> 3]

php_instruction(c, opcode) ==
    LET status_flag ==
            (IF c.negative_flag THEN 128 ELSE 0) + (IF c.overflow_flag THEN 64 ELSE 0)
          + (IF c.break_flag THEN 16 ELSE 0) + (IF c.decimal_flag THEN 8 ELSE 0)
          + (IF c.interrupt_flag THEN 4 ELSE 0) + (IF c.zero_flag THEN 2 ELSE 0)
          + (IF c.carry_flag THEN 1 ELSE 0)
    IN  [c |-> push_value(c, status_flag), cycles |-> 3]

pla_instruction(c, opcode) ==
    LET Pull(r) == [c |-> [r.c EXCEPT !.accumulator = r.value], cycles |-> 4]
    IN  Pull(pop_value(c))

plp_instruction(c, opcode) ==
    LET Pull(r) ==
            [c |-> [r.c EXCEPT !.negative_flag = (Bit(r.value, 7) = 1),
                               !.overflow_flag = (Bit(r.value, 6) = 1),
                               !.break_flag = (Bit(r.value, 4) = 1),
                               !.decimal_flag = (Bit(r.value, 3) = 1),
                               !.interrupt_flag = (Bit(r.value, 2) = 1),
                               !.zero_flag = (Bit(r.value, 1) = 1),
                               !.carry_flag = (Bit(r.value, 0) = 1)],
             cycles |-> 4]
    IN  Pull(pop_value(c))

sta_instruction(c, opcode) ==
    LET Sta(o) == [c |-> WriteByte(o.c, o.index, o.c.accumulator), cycles |-> o.cycles]
    IN  Sta(CASE opcode = 133 -> WithCycles(zero_page(c), 3)
              [] opcode = 149 -> WithCycles(zero_page_x(c), 4)
              [] opcode = 141 -> WithCycles(absolute(c), 4)
              [] opcode = 157 -> WithCycles(absolute_x(c), 5)
              [] opcode = 153 -> WithCycles(absolute_y(c), 5)
              [] opcode = 129 -> WithCycles(indexed_indirect(c), 6)
              [] opcode = 145 -> WithCycles(indirect_indexed(c), 6)
              [] OTHER -> NoOperand(c, "opcode not associated to STA instruction"))

stx_instruction(c, opcode) ==
    LET Stx(o) == [c |-> WriteByte(o.c, o.index, o.c.x_register), cycles |-> o.cycles]
    IN  Stx(CASE opcode = 134 -> WithCycles(zero_page(c), 3)
              [] opcode = 150 -> WithCycles(zero_page_y(c), 4)
              [] opcode = 142 -> WithCycles(absolute(c), 4)
              [] OTHER -> NoOperand(c, "opcode not associated to STX instruction"))

sty_instruction(c, opcode) ==
    LET Sty(o) == [c |-> WriteByte(o.c, o.index, o.c.y_register), cycles |-> o.cycles]
    IN  Sty(CASE opcode = 132 -> WithCycles(zero_page(c), 3)
              [] opcode = 148 -> WithCycles(zero_page_x(c), 4)
              [] opcode = 140 -> WithCycles(absolute(c), 4)
              [] OTHER -> NoOperand(c, "opcode not associated to STY instruction"))

tax_instruction(c, opcode) ==
    [c |-> update_zero_and_negative_flags([c EXCEPT !.x_register = c.accumulator],
                                          c.accumulator), cycles |-> 2]

tay_instruction(c, opcode) ==
    [c |-> update_zero_and_negative_flags([c EXCEPT !.y_register = c.accumulator],
                                          c.accumulator), cycles |-> 2]

tsx_instruction(c, opcode) ==
    [c |-> update_zero_and_negative_flags([c EXCEPT !.x_register = c.stack_pointer],
                                          c.stack_pointer), cycles |-> 2]

txa_instruction(c, opcode) ==
    [c |-> update_zero_and_negative_flags([c EXCEPT !.accumulator = c.x_register],
                                          c.x_register), cycles |-> 2]

txs_instruction(c, opcode) == [c |-> [c EXCEPT !.stack_pointer = c.x_register], cycles |-> 2]

tya_instruction(c, opcode) ==
    [c |-> update_zero_and_negative_flags([c EXCEPT !.accumulator = c.y_register],
                                          c.y_register), cycles |-> 2]

---------------------------------------------------------------------------
(* Console::execute_instruction: fetch, dispatch, count.                   *)

\* the opcodes of the match arms of execute_instruction
DispatchTable ==
    {0, 1, 5, 6, 8, 9, 10, 13, 14, 16, 17, 21, 22, 24, 25, 29, 30, 32, 33,
     36, 37, 38, 40, 41, 42, 44, 45, 46, 48, 49, 53, 54, 56, 57, 61, 62,
     64, 65, 69, 70, 72, 73, 74, 76, 77, 78, 80, 81, 85, 86, 88, 89, 93,
     94, 96, 97, 101, 102, 104, 105, 106, 108, 109, 110, 112, 113, 117,
     118, 120, 121, 125, 126, 129, 132, 133, 134, 136, 138, 140, 141, 142,
     144, 145, 148, 149, 150, 152, 153, 154, 157, 160, 161, 162, 164, 165,
     166, 168, 169, 170, 172, 173, 174, 176, 177, 180, 181, 182, 184, 185,
     186, 188, 189, 190, 192, 193, 196, 197, 198, 200, 201, 202, 204, 205,
     206, 208, 209, 213, 214, 216, 217, 221, 222, 224, 225, 229, 230, 232,
     233, 234, 237, 238, 240, 241, 245, 246, 248, 249, 253, 254}

\* the default arm with the panic the source has commented out
DispatchOrPanic(c, opcode) == [c |-> Panic(c, "unknown instruction"), cycles |-> 0]

Dispatch(c, opcode) ==
    CASE opcode \in {105, 101, 117, 109, 125, 121, 97, 113} -> adc_instruction(c, opcode)
      [] opcode \in {41, 37, 53, 45, 61, 57, 33, 49} -> and_instruction(c, opcode)
      [] opcode \in {10, 6, 22, 14, 30} -> asl_instruction(c, opcode)
      [] opcode = 144 -> bcc_instruction(c, opcode)
      [] opcode = 176 -> bcs_instruction(c, opcode)
      [] opcode = 240 -> beq_instruction(c, opcode)
      [] opcode \in {36, 44} -> bit_instruction(c, opcode)
      [] opcode = 48 -> bmi_instruction(c, opcode)
      [] opcode = 208 -> bne_instruction(c, opcode)
      [] opcode = 16 -> bpl_instruction(c, opcode)
      [] opcode = 0 -> brk_instruction(c, opcode)
      [] opcode = 80 -> bvc_instruction(c, opcode)
      [] opcode = 112 -> bvs_instruction(c, opcode)
      [] opcode = 24 -> clc_instruction(c, opcode)
      [] opcode = 216 -> cld_instruction(c, opcode)
      [] opcode = 88 -> cli_instruction(c, opcode)
      [] opcode = 184 -> clv_instruction(c, opcode)
      [] opcode \in {201, 197, 213, 205, 221, 217, 193, 209} -> cmp_instruction(c, opcode)
      [] opcode = 224 -> cpx_instruction(c, opcode)
      [] opcode \in {192, 196, 204} -> cpy_instruction(c, opcode)
      [] opcode \in {198, 214, 206, 222} -> dec_instruction(c, opcode)
      [] opcode = 202 -> dex_instruction(c, opcode)
      [] opcode = 136 -> dey_instruction(c, opcode)
      [] opcode \in {73, 69, 85, 77, 93, 89, 65, 81} -> eor_instruction(c, opcode)
      [] opcode \in {230, 246, 238, 254} -> inc_instruction(c, opcode)
      [] opcode = 232 -> inx_instruction(c, opcode)
      [] opcode = 200 -> iny_instruction(c, opcode)
      [] opcode \in {76, 108} -> jmp_instruction(c, opcode)
      [] opcode = 32 -> jsr_instruction(c, opcode)
      [] opcode \in {169, 165, 181, 173, 189, 185, 161, 177} -> lda_instruction(c, opcode)
      [] opcode \in {162, 166, 182, 174, 190} -> ldx_instruction(c, opcode)
      [] opcode \in {160, 164, 180, 172, 188} -> ldy_instruction(c, opcode)
      [] opcode \in {74, 70, 86, 78, 94} -> lsr_instruction(c, opcode)
      [] opcode = 234 -> nop_instruction(c, opcode)
      [] opcode \in {9, 5, 21, 13, 29, 25, 1, 17} -> ora_instruction(c, opcode)
      [] opcode = 72 -> pha_instruction(c, opcode)
      [] opcode = 8 -> php_instruction(c, opcode)
      [] opcode = 104 -> pla_instruction(c, opcode)
      [] opcode = 40 -> plp_instruction(c, opcode)
      [] opcode \in {42, 38, 54, 46, 62} -> rol_instruction(c, opcode)
      [] opcode \in {106, 102, 118, 110, 126} -> ror_instruction(c, opcode)
      [] opcode = 64 -> rti_instruction(c, opcode)
      [] opcode = 96 -> rts_instruction(c, opcode)
      [] opcode \in {233, 229, 245, 237, 253, 249, 225, 241} -> sbc_instruction(c, opcode)
      [] opcode = 56 -> sec_instruction(c, opcode)
      [] opcode = 248 -> sed_instruction(c, opcode)
      [] opcode = 120 -> sei_instruction(c, opcode)
      [] opcode \in {133, 149, 141, 157, 153, 129, 145} -> sta_instruction(c, opcode)
      [] opcode \in {134, 150, 142} -> stx_instruction(c, opcode)
      [] opcode \in {132, 148, 140} -> sty_instruction(c, opcode)
      [] opcode = 170 -> tax_instruction(c, opcode)
      [] opcode = 168 -> tay_instruction(c, opcode)
      [] opcode = 186 -> tsx_instruction(c, opcode)
      [] opcode = 138 -> txa_instruction(c, opcode)
      [] opcode = 154 -> txs_instruction(c, opcode)
      [] opcode = 152 -> tya_instruction(c, opcode)
      [] OTHER -> [c |-> c, cycles |-> 0]

execute_instruction(c) ==
    LET Count(r) == [c |-> [r.c EXCEPT !.instructions_count = @ + 1], cycles |-> r.cycles]
        Fetch(p) == Count(Dispatch(advance_pointer(p.c), Load(p.c, p.ref)))
    IN  Fetch(pointed_value(c))

---------------------------------------------------------------------------
(* Console::update as a sequence of steps.  update_pc is                   *)
(*   "idle"    not inside update                                           *)
(*   "loop"    at the test of `while self.remaining_cycles >= 10`          *)
(*   "cycles"  in `while elapsed_cycles > 0` after an instruction          *)
(*   "halted"  in `while self.remaining_cycles > 0` of the halted branch   *)
(*   "aborted" the process panicked                                        *)

\* elapsed times the host passes to update in the short-step runs
Durations == {CYCLE_DURATION \div 10, CYCLE_DURATION * 12, CYCLE_DURATION * 31}

\* one television frame
FrameDuration == 16666667

\* the loop test of update_accurate
UpdateLoopConditionAccurate(c) == c.remaining_cycles > 0

UpdateLoopCondition(c) == c.remaining_cycles >= 10

\* the crediting loop with `>` in place of `>=`: a whole period stays behind
CreditCycles_strict(c, elapsed_time) ==
    LET total == c.elapsed_time + elapsed_time
        periods == IF total % CYCLE_DURATION = 0 /\ total > 0
                   THEN (total \div CYCLE_DURATION) - 1 ELSE total \div CYCLE_DURATION
    IN  [c EXCEPT !.elapsed_time = total - periods * CYCLE_DURATION,
                  !.remaining_cycles = @ + periods]

\* lines 569-578: credit the elapsed time as whole cycles
CreditCycles(c, elapsed_time) ==
    LET total == c.elapsed_time + elapsed_time IN
    [c EXCEPT !.elapsed_time = total % CYCLE_DURATION,
              !.remaining_cycles = @ + (total \div CYCLE_DURATION)]

ObsInit ==
    [ host_elapsed |-> 0,
      last_cycles |-> 0,
      cycles_since_fetch |-> 0,
      halted_cycles_since_fetch |-> 0,
      halt_age |-> 0,
      halted_by_instruction |-> FALSE,
      reload_active |-> FALSE,
      reload_v |-> 0,
      reload_k |-> 0,
      reload_ticks |-> 0,
      since_zero |-> -1 ]

TimerFields(c) == <<c.timer_value, c.timer_interval, c.timer_elapsed_clocks>>

\* history after an instruction took the console from c to d in n cycles
ObsInstruction(c, d, n) ==
    LET changed == TimerFields(d) # TimerFields(c)
        reloaded == d.timer_block /\ (~c.timer_block \/ changed)
    IN  [obs EXCEPT !.last_cycles = n,
                    !.cycles_since_fetch = 0,
                    !.halted_cycles_since_fetch = 0,
                    !.halt_age = 0,
                    !.halted_by_instruction = d.cpu_halt,
                    !.reload_active = reloaded \/ (@ /\ ~changed),
                    !.reload_v = IF reloaded THEN d.timer_value ELSE @,
                    !.reload_k = IF reloaded THEN d.timer_interval ELSE @,
                    !.reload_ticks = IF reloaded THEN 0 ELSE @,
                    !.since_zero = IF reloaded \/ changed THEN -1 ELSE @]

\* history after execute_cycle took the console from c to d
ObsCycle(c, d, halted) ==
    [obs EXCEPT !.cycles_since_fetch = @ + 1,
                !.halted_cycles_since_fetch = IF halted THEN @ + 1 ELSE @,
                !.halt_age = IF d.cpu_halt THEN @ + 1 ELSE 0,
                !.reload_ticks = IF c.timer_block THEN @ ELSE @ + 1,
                !.since_zero = IF c.timer_value = 1 /\ d.timer_value = 0 THEN 0
                               ELSE IF @ >= 0 THEN @ + 1 ELSE @]

\* the process is gone: the console keeps its last state and the message
Abort(c) ==
    /\ console' = [console EXCEPT !.panic = c.panic]
    /\ update_pc' = "aborted"
    /\ UNCHANGED <<elapsed_cycles, obs>>

UpdateWith(elapsed_time) ==
    /\ update_pc = "idle"
    /\ console.panic = ""
    /\ console' = CreditCycles(console, elapsed_time)
    /\ update_pc' = "loop"
    /\ calls' = calls + 1
    /\ obs' = [obs EXCEPT !.host_elapsed = @ + elapsed_time]
    /\ UNCHANGED <<elapsed_cycles, overflow_checks, last_op>>

Update ==
    \E elapsed_time \in Durations :
        /\ calls < MaxUpdates
        /\ obs.host_elapsed + elapsed_time <= MaxElapsed
        /\ UpdateWith(elapsed_time)

UpdateFrame == calls < MaxFrames /\ UpdateWith(FrameDuration)

\* lines 596-597
ExecuteInstruction ==
    /\ update_pc = "loop"
    /\ UpdateLoopCondition(console)
    /\ ~console.cpu_halt
    /\ console.instructions_count < MaxInstructions
    /\ LET Executed(r) ==
               IF r.c.panic # "" THEN Abort(r.c)
               ELSE /\ console' = [r.c EXCEPT !.remaining_cycles = @ - r.cycles]
                    /\ elapsed_cycles' = r.cycles
                    /\ update_pc' = "cycles"
                    /\ obs' = ObsInstruction(console, r.c, r.cycles)
       IN  Executed(execute_instruction(console))
    /\ UNCHANGED <<overflow_checks, calls, last_op>>

\* lines 601-604
ExecuteCycle ==
    /\ update_pc = "cycles"
    /\ elapsed_cycles > 0
    /\ LET Executed(d) ==
               IF d.panic # "" THEN Abort(d)
               ELSE /\ console' = d
                    /\ elapsed_cycles' = elapsed_cycles - 1
                    /\ obs' = ObsCycle(console, d, FALSE)
                    /\ UNCHANGED update_pc
       IN  Executed(execute_cycle(console))
    /\ UNCHANGED <<overflow_checks, calls, last_op>>

\* line 606
EndInstruction ==
    /\ update_pc = "cycles"
    /\ elapsed_cycles = 0
    /\ console' = [console EXCEPT !.timer_block = FALSE]
    /\ update_pc' = "loop"
    /\ UNCHANGED <<elapsed_cycles, overflow_checks, calls, last_op, obs>>

\* lines 615-624
HaltedCycle ==
    /\ \/ update_pc = "loop" /\ UpdateLoopCondition(console) /\ console.cpu_halt
       \/ update_pc = "halted"
    /\ LET Executed(d) ==
               IF d.panic # "" THEN Abort(d)
               ELSE /\ console' = [d EXCEPT !.remaining_cycles = @ - 1]
                    /\ update_pc' = IF ~d.cpu_halt \/ ~(d.remaining_cycles - 1 > 0)
                                    THEN "loop" ELSE "halted"
                    /\ obs' = ObsCycle(console, d, TRUE)
                    /\ UNCHANGED elapsed_cycles
       IN  Executed(execute_cycle(console))
    /\ UNCHANGED <<overflow_checks, calls, last_op>>

\* line 630 and the return
Return ==
    /\ update_pc = "loop"
    /\ ~UpdateLoopCondition(console)
    /\ IF console.remaining_cycles >= 0
       THEN update_pc' = "idle" /\ UNCHANGED <<console, elapsed_cycles, obs>>
       ELSE Abort(Panic(console, "assertion failed: self.remaining_cycles >= 0"))
    /\ UNCHANGED <<overflow_checks, calls, last_op>>

InitWith(cartridges) ==
    /\ console \in {new(cartridge) : cartridge \in cartridges}
    /\ update_pc = "idle"
    /\ elapsed_cycles = 0
    /\ overflow_checks \in BOOLEAN
    /\ calls = 0
    /\ last_op = <<"new", 0, 0>>
    /\ obs = ObsInit

Init == InitWith(Cartridges)

Next ==
    \/ Update
    \/ ExecuteInstruction
    \/ ExecuteCycle
    \/ EndInstruction
    \/ HaltedCycle
    \/ Return

Spec == Init /\ [][Next]_vars

InitFrame == InitWith(FrameCartridges)

NextFrame ==
    \/ UpdateFrame
    \/ ExecuteInstruction
    \/ ExecuteCycle
    \/ EndInstruction
    \/ HaltedCycle
    \/ Return

FrameSpec == InitFrame /\ [][NextFrame]_vars

---------------------------------------------------------------------------
(* The update loop.                                                        *)

AssertionMessage == "assertion failed: self.remaining_cycles >= 0"

\* C1: each time update returns, 0 <= remaining_cycles <= 9, and the final
\* assertion remaining_cycles >= 0 never fails.
C1_RemainingCyclesInRange ==
    /\ update_pc = "idle" /\ calls > 0 => console.remaining_cycles \in 0..9
    /\ console.panic # AssertionMessage

\* update returned after a seven-cycle instruction, with cycles left over
C1_Witness ==
    /\ update_pc = "idle"
    /\ obs.last_cycles = 7
    /\ console.remaining_cycles \in 1..9

\* C2: update returns whatever opcodes are fetched: its loop reaches
\* remaining_cycles < 10 and the call does not end in a panic.
C2_UpdateReturns == update_pc # "aborted"

\* the instruction at the head of the loop is about to be fetched
AtFetch == update_pc = "loop" /\ UpdateLoopCondition(console) /\ ~console.cpu_halt

\* what one execute_cycle does to the counters and the timer
CycleEffect(c, d) ==
    /\ d.cycles_count = c.cycles_count + 1
    /\ d.color_cycles_count = c.color_cycles_count + 3
    /\ d.scanline_cycle = (c.scanline_cycle + 3) % HORIZONTAL_CYCLES
    /\ TimerFields(d) = IF c.timer_block THEN TimerFields(c)
                        ELSE TimerFields(update_timer(c))

\* C3 as stated: an instruction that returned n cycles is followed by
\* exactly n execute_cycle calls before the next fetch.
C3_ExactlyNCycles == AtFetch => obs.cycles_since_fetch = obs.last_cycles

\* C3: an instruction that returned n cycles is followed by n execute_cycle
\* calls, and by the execute_cycle calls of the halted branch when it halted
\* the CPU, before the next fetch; each execute_cycle adds three color cycles
\* and ticks the timer once iff timer_block is false; color_cycles_count =
\* 3 * cycles_count.
C3_CyclesPerInstruction ==
    [][ /\ AtFetch' =>
            /\ obs'.cycles_since_fetch
                   = obs'.last_cycles + obs'.halted_cycles_since_fetch
            /\ obs'.halted_cycles_since_fetch > 0 => obs'.halt_age = 0
        /\ update_pc' = "cycles" =>
            obs'.cycles_since_fetch + elapsed_cycles' = obs'.last_cycles
        /\ console'.cycles_count # console.cycles_count =>
            CycleEffect(console, console')
        /\ console'.color_cycles_count = 3 * console'.cycles_count ]_vars

\* the next fetch comes after the three cycles of STA WSYNC and the cycles
\* of the halted branch
C3_Witness ==
    /\ AtFetch
    /\ obs.last_cycles = 3
    /\ obs.halted_cycles_since_fetch > 0
    /\ console.color_cycles_count > 0

---------------------------------------------------------------------------
(* WSYNC and the beam.                                                     *)

CpuState(c) ==
    << c.pointer_counter, c.accumulator, c.x_register, c.y_register,
       c.stack_pointer, c.carry_flag, c.zero_flag, c.interrupt_flag,
       c.decimal_flag, c.break_flag, c.overflow_flag, c.negative_flag,
       c.instructions_count >>

\* C4: a write to WSYNC sets cpu_halt, and while cpu_halt is true no
\* instruction executes: PC, A, X, Y, SP, the flags and instructions_count
\* stay unchanged.
C4_HaltStopsCpu ==
    [][ /\ WriteByte(console, WSYNC, console.accumulator).cpu_halt
        /\ console.cpu_halt => CpuState(console') = CpuState(console) ]_vars

\* cycles have run while the CPU was halted by the STA WSYNC at 0xF004
C4_Witness ==
    /\ console.cpu_halt
    /\ console.pointer_counter = 61446
    /\ obs.halt_age > 10

\* the three color cycles of the execute_cycle that follows c
ColorSteps(c) ==
    LET c1 == IF ~c.timer_block THEN update_timer(c) ELSE c
        s0 == [c1 EXCEPT !.panic = ""]
        s1 == execute_color_cycle(s0)
        s2 == execute_color_cycle(s1)
        s3 == execute_color_cycle(s2)
    IN  << <<s0, s1>>, <<s1, s2>>, <<s2, s3>> >>

\* C5: cpu_halt is cleared exactly at the color cycle where scanline_cycle
\* wraps from 227 to 0, and a halted CPU is released after at most 76
\* execute_cycle steps.
C5_HaltRelease ==
    [][ /\ console.cpu_halt /\ ~console'.cpu_halt =>
            console.scanline_cycle = 225 /\ console'.scanline_cycle = 0
        /\ console.cpu_halt /\ console'.scanline_cycle < console.scanline_cycle =>
            ~console'.cpu_halt
        /\ \A i \in 1..3 :
            LET s == ColorSteps([console EXCEPT !.cpu_halt = TRUE])[i] IN
            ~s[2].cpu_halt <=> (s[1].scanline_cycle = 227 /\ s[2].scanline_cycle = 0)
        /\ console'.cpu_halt => obs'.halt_age <= 75 ]_vars

\* the halted CPU has just been released at the start of a line
C5_Witness ==
    /\ ~console.cpu_halt
    /\ console.scanline_cycle = 0
    /\ obs.halted_cycles_since_fetch > 60

\* C6: after every color cycle scanline_cycle < 228 and scanline < 262.
C6_BeamInRange ==
    /\ console.scanline_cycle < HORIZONTAL_CYCLES
    /\ console.scanline < VERTICAL_LINES
    /\ \A i \in 1..3 :
        LET s == ColorSteps(console)[i][2] IN
        s.scanline_cycle < HORIZONTAL_CYCLES /\ s.scanline < VERTICAL_LINES

\* the beam wrapped from line 261 to line 0 after a VSYNC resynchronisation
C6_Witness ==
    /\ console.cartridge = "kernel"
    /\ console.scanline = 0
    /\ console.scanline_cycle = 0
    /\ console.cycles_count > 1000

---------------------------------------------------------------------------
(* The bus and the timer, operation by operation: reads and writes of the *)
(* timer registers interleaved with timer ticks.                          *)

BusAddresses == {INTIM, INSTAT, 646, TIM1T, TIM8T, TIM64T, T1024T}

BusValues == {0, 1, 255}

BusDone(c, op) ==
    /\ console' = (IF c.panic = "" THEN c ELSE [console EXCEPT !.panic = c.panic])
    /\ last_op' = op
    /\ calls' = calls + 1
    /\ UNCHANGED <<update_pc, elapsed_cycles, overflow_checks, obs>>

BusReady == calls < MaxBusOps /\ console.panic = ""

BusRead ==
    \E index \in BusAddresses :
        /\ BusReady
        /\ LET Done(r) == BusDone(r.c, <<"read", index, r.value>>)
           IN  Done(ReadByte(console, index))

BusWrite ==
    \E index \in BusAddresses, value \in BusValues :
        /\ BusReady
        /\ BusDone(WriteByte(console, index, value), <<"write", index, value>>)

TimerTick ==
    /\ BusReady
    /\ BusDone(update_timer(console), <<"tick", 0, 0>>)

BusNext ==
    \/ BusRead
    \/ BusWrite
    \/ TimerTick

BusInit == InitWith({"timer"})

BusSpec == BusInit /\ [][BusNext]_vars

UnderflowMessage == "attempt to subtract with overflow"

\* C7: timer_interval is one of 1, 8, 64, 1024 and
\* 1 <= timer_elapsed_clocks <= timer_interval, so the decrement in
\* update_timer never underflows.
C7_TimerInvariant ==
    /\ console.timer_interval \in {1, 8, 64, 1024}
    /\ 1 <= console.timer_elapsed_clocks
    /\ console.timer_elapsed_clocks <= console.timer_interval
    /\ console.panic # UnderflowMessage

\* a tick in the middle of an interval of 8 clocks
C7_Witness ==
    /\ last_op[1] = "tick"
    /\ console.timer_interval = 8
    /\ console.timer_elapsed_clocks = 6

C9_ReloadCountdown ==
    obs.reload_active /\ obs.reload_v >= 1 =>
        LET t == obs.reload_ticks
            decrements == 1 + ((t - 1) \div obs.reload_k)
        IN  IF t = 0 THEN console.timer_value = obs.reload_v
            ELSE decrements <= obs.reload_v =>
                    /\ console.timer_value = obs.reload_v - decrements
                    /\ console.timer_interval = obs.reload_k

\* INTIM reached 0 on the 33rd cycle after 5 was written to TIM8T
C9_Witness ==
    /\ obs.reload_active
    /\ obs.reload_v = 5
    /\ obs.reload_k = 8
    /\ obs.reload_ticks = 33
    /\ console.timer_value = 0

Underflowed(c) ==
    /\ c.timer_value = 255
    /\ c.timer_interval = 1
    /\ Bit(c.timer_status, 6) = 1
    /\ Bit(c.timer_status, 7) = 1

---------------------------------------------------------------------------
(* The bus contract: reads and writes seen from the CPU.                   *)

\* the step is a bus read of `index`
IsBusRead(index) ==
    calls' = calls + 1 /\ last_op'[1] = "read" /\ last_op'[2] = index

\* C11: a bus read of INSTAT clears bit 6 of timer_status and leaves bit 7,
\* the other bits and every other field of the console unchanged.
C11_InstatReadClearsBit6 ==
    [][ IsBusRead(INSTAT) =>
            /\ Bit(console'.timer_status, 6) = 0
            /\ Bit(console'.timer_status, 7) = Bit(console.timer_status, 7)
            /\ console'.timer_status % 64 = console.timer_status % 64
            /\ console' = [console EXCEPT !.timer_status = console'.timer_status]
      ]_vars

\* INSTAT read after an underflow: bit 6 is gone, bit 7 is still there
C11_Witness ==
    /\ last_op[1] = "read"
    /\ last_op[2] = INSTAT
    /\ console.timer_status = 128
    /\ console.timer_value = 255

\* C12 as stated: a bus read of INSTAT returns the status as it was before
\* bit 6 was cleared, so a read with bit 6 set returns a byte with bit 6 = 1
\* (and the next one a byte with bit 6 = 0).
C12_ReadReturnsPreClear ==
    [][ IsBusRead(INSTAT) => last_op'[3] = console.timer_status ]_vars

---------------------------------------------------------------------------
(* The whole 16-bit address space: a strobe, a RAM cell, the timer, an     *)
(* unmapped cell and both ends of the ROM window, each with two of its     *)
(* mirrors (bit 13 set; bits 13..15 set).                                  *)

MirrorAddresses ==
    {a + k * 8192 : a \in {WSYNC, 128, INSTAT, 646, TIM8T, 4096, 8191}, k \in {0, 1, 7}}

MirrorRead ==
    \E index \in MirrorAddresses :
        /\ calls < MaxMirrorOps
        /\ console.panic = ""
        /\ LET Done(r) == BusDone(r.c, <<"read", index, r.value>>)
           IN  Done(ReadByte(console, index))

MirrorWrite ==
    \E index \in MirrorAddresses, value \in {0, 255} :
        /\ calls < MaxMirrorOps
        /\ console.panic = ""
        /\ BusDone(WriteByte(console, index, value), <<"write", index, value>>)

MirrorNext ==
    \/ MirrorRead
    \/ MirrorWrite

\* the 71-byte cartridge of the timer test and a 4 KiB one
MirrorInit == InitWith({"timer", "kernel"})

MirrorSpec == MirrorInit /\ [][MirrorNext]_vars

\* C13: for every 16-bit address a, memory(a) and memory_mut(a) behave like
\* memory(a & 0x1FFF) and memory_mut(a & 0x1FFF): same cell, same byte,
\* same side effects.
C13_MaskedDecoding ==
    \A a \in MirrorAddresses :
        LET masked == a - 8192 * (a \div 8192) IN
        /\ memory(console, a) = memory(console, masked)
        /\ memory_mut(console, a) = memory_mut(console, masked)
        /\ ReadByte(console, a) = ReadByte(console, masked)
        /\ \A value \in {0, 255} :
               WriteByte(console, a, value) = WriteByte(console, masked, value)

\* a write through the mirror 0xE295 of TIM8T reloaded the timer
C13_Witness ==
    /\ last_op = <<"write", TIM8T + 57344, 255>>
    /\ console.timer_value = 255
    /\ console.timer_interval = 8
    /\ console.timer_block

\* C14: after any sequence of bus writes, a read of an address of the ROM
\* window 0x1000..0x1FFF, or of a mirror of it, returns the byte the
\* cartridge held at construction; no write modifies the cartridge memory.
C14_RomUnchanged ==
    /\ console.cartridge_writes = [i \in {} |-> 0]
    /\ \A a \in MirrorAddresses :
           (a % 8192) >= 4096 /\ (a % 4096) < Len(CartridgeMemory(console.cartridge)) =>
               ReadByte(console, a).value
                   = CartridgeMemory(console.cartridge)[(a % 4096) + 1]

\* 0xFF was written to the first ROM address through its mirror 0xF000,
\* after an earlier write to the last one
C14_Witness ==
    /\ console.cartridge = "kernel"
    /\ last_op = <<"write", 61440, 255>>
    /\ DummyAt(console, 4096) = 255
    /\ DummyAt(console, 8191) = 255
    /\ CartridgeMemory(console.cartridge)[1] # 255

\* C15 as stated: a read of an address outside the mapped ranges returns 0
\* after any sequence of writes, including writes to that same address.
C15_UnmappedReadsZero ==
    /\ last_op[1] = "read"
    /\ (last_op[2] % 8192) \notin
           (0..61) \cup (128..255) \cup (640..645) \cup (660..663) \cup (4096..8191)
    => last_op[3] = 0

---------------------------------------------------------------------------
(* Construction, instruction timing and the console switches.              *)

\* C16: immediately after Console::new the program counter is 0xF000,
\* A = X = Y = 0, SP = 0xFF and the seven flags N V B D I Z C are set.
C16_PowerOnState ==
    calls = 0 =>
        /\ console.pointer_counter = 61440
        /\ console.accumulator = 0
        /\ console.x_register = 0
        /\ console.y_register = 0
        /\ console.stack_pointer = 255
        /\ console.negative_flag /\ console.overflow_flag /\ console.break_flag
        /\ console.decimal_flag /\ console.interrupt_flag
        /\ console.zero_flag /\ console.carry_flag

\* the console of the kernel cartridge before the first update
C16_Witness ==
    /\ calls = 0
    /\ update_pc = "idle"
    /\ console.cartridge = "kernel"
    /\ console.instructions_count = 0
    /\ console.cycles_count = 0

\* the opcode the next execute_instruction fetches
FetchedOpcode == ReadByte(console, console.pointer_counter).value

\* the step is one execute_instruction of update (which returned or panicked)
IsExecuteInstruction ==
    /\ update_pc = "loop"
    /\ UpdateLoopCondition(console)
    /\ ~console.cpu_halt
    /\ update_pc' \in {"cycles", "aborted"}

\* C17 as stated: for every opcode of the instruction set (BRK, RTI, SBC and
\* every addressing mode of CPX included) execute_instruction returns a
\* cycle count between 2 and 7.
C17_CyclesBetween2And7 ==
    [][ IsExecuteInstruction /\ update_pc' = "cycles"
        /\ FetchedOpcode \in DispatchTable \cup {228, 236}
        => elapsed_cycles' \in 2..7 ]_vars

\* C18: when execute_instruction fetches an opcode that is not in its
\* dispatch table it does not abort: it returns 0 cycles, advances the
\* program counter by exactly one and leaves registers, flags, stack
\* pointer, memory, timer and beam state unchanged (the instruction is
\* counted).
C18_UnknownOpcode ==
    [][ IsExecuteInstruction /\ FetchedOpcode \notin DispatchTable =>
            /\ update_pc' = "cycles"
            /\ elapsed_cycles' = 0
            /\ console' = [console EXCEPT !.pointer_counter = @ + 1,
                                          !.instructions_count = @ + 1]
      ]_vars

\* the CPX zero page opcode 0xE4, which is not dispatched, was executed
\* after another unknown opcode
C18_Witness ==
    /\ console.cartridge = "unknown"
    /\ update_pc = "cycles"
    /\ console.pointer_counter = 61442
    /\ console.instructions_count = 2
    /\ obs.last_cycles = 0

---------------------------------------------------------------------------
(* The console switches (port B of the PIA, SWCHB): the host presses and   *)
(* releases the reset button and moves the difficulty switches between     *)
(* updates; the program may write SWCHB.                                   *)

\* pressing the reset button clears the whole port
press_reset_button_clearing_port(c) == WriteByte(c, SWCHB, 0)

press_reset_button(c) ==
    LET Clear(m) == Store(m.c, m.ref, BitAnd(Load(m.c, m.ref), 254))
    IN  Clear(memory_mut(c, SWCHB))

release_reset_button(c) ==
    LET Set(m) == Store(m.c, m.ref, BitOr(Load(m.c, m.ref), 1))
    IN  Set(memory_mut(c, SWCHB))

difficulty_switch(c, player) ==
    LET Switch(r) ==
            IF BitAnd(r.value, IF player = "One" THEN 64 ELSE 128) > 0
            THEN "Pro" ELSE "Amateur"
    IN  Switch(ReadByte(c, SWCHB))

set_difficulty_switch(c, player, difficulty) ==
    LET Move(m) ==
            CASE player = "One" /\ difficulty = "Amateur" ->
                    Store(m.c, m.ref, BitOr(Load(m.c, m.ref), 64))
              [] player = "One" /\ difficulty = "Pro" ->
                    Store(m.c, m.ref, BitAnd(Load(m.c, m.ref), 191))
              [] player = "Two" /\ difficulty = "Amateur" ->
                    Store(m.c, m.ref, BitOr(Load(m.c, m.ref), 128))
              [] player = "Two" /\ difficulty = "Pro" ->
                    Store(m.c, m.ref, BitAnd(Load(m.c, m.ref), 127))
    IN  Move(memory_mut(c, SWCHB))

PressResetButton ==
    /\ calls < MaxSwitchOps
    /\ BusDone(press_reset_button(console), <<"press_reset_button", 0, 0>>)

ReleaseResetButton ==
    /\ calls < MaxSwitchOps
    /\ BusDone(release_reset_button(console), <<"release_reset_button", 0, 0>>)

SetDifficultySwitch ==
    \E player \in {"One", "Two"}, difficulty \in {"Amateur", "Pro"} :
        /\ calls < MaxSwitchOps
        /\ BusDone(set_difficulty_switch(console, player, difficulty),
                   <<"set_difficulty_switch", player, difficulty>>)

\* the program stores a byte in SWCHB
SwitchWrite ==
    \E value \in {0, 60, 255} :
        /\ calls < MaxSwitchOps
        /\ BusDone(WriteByte(console, SWCHB, value), <<"write", SWCHB, value>>)

SwitchNext ==
    \/ PressResetButton
    \/ ReleaseResetButton
    \/ SetDifficultySwitch
    \/ SwitchWrite

SwitchSpec == BusInit /\ [][SwitchNext]_vars

\* C19: press_reset_button clears bit 0 of SWCHB and release_reset_button
\* sets it; both leave the other seven bits of SWCHB and all other console
\* state unchanged.
C19_ResetButton ==
    [][ /\ last_op'[1] = "press_reset_button" /\ calls' = calls + 1 =>
            /\ Bit(console'.pia[2], 0) = 0
            /\ console'.pia[2] \div 2 = console.pia[2] \div 2
            /\ console' = [console EXCEPT !.pia[2] = console'.pia[2]]
        /\ last_op'[1] = "release_reset_button" /\ calls' = calls + 1 =>
            /\ Bit(console'.pia[2], 0) = 1
            /\ console'.pia[2] \div 2 = console.pia[2] \div 2
            /\ console' = [console EXCEPT !.pia[2] = console'.pia[2]]
      ]_vars

\* the button was pressed with the other seven bits of SWCHB set
C19_Witness ==
    /\ last_op[1] = "press_reset_button"
    /\ console.pia[2] = 254

\* C20 as stated: set_difficulty_switch(p, d) followed by
\* difficulty_switch(p) returns d, Pro being stored as 1 and Amateur as 0
\* in bit 6 (player one) or bit 7 (player two) of SWCHB.
C20_DifficultyRoundTrip ==
    last_op[1] = "set_difficulty_switch" =>
        /\ difficulty_switch(console, last_op[2]) = last_op[3]
        /\ Bit(console.pia[2], IF last_op[2] = "One" THEN 6 ELSE 7)
               = (IF last_op[3] = "Pro" THEN 1 ELSE 0)


---------------------------------------------------------------------------
(* Single instructions.  The console is prepared the way the tests of      *)
(* instruction.rs prepare it (registers and flags assigned, instruction    *)
(* bytes stored through memory_mut, pointer_counter set) and then executes *)
(* instructions; obs keeps the prepared console.                           *)

MaxCpuOps == 2

\* the flags of a prepared console, given as the byte PHP would push
WithFlags(c, p) ==
    [c EXCEPT !.negative_flag = (Bit(p, 7) = 1),
              !.overflow_flag = (Bit(p, 6) = 1),
              !.break_flag = (Bit(p, 4) = 1),
              !.decimal_flag = (Bit(p, 3) = 1),
              !.interrupt_flag = (Bit(p, 2) = 1),
              !.zero_flag = (Bit(p, 1) = 1),
              !.carry_flag = (Bit(p, 0) = 1)]

\* setup_instruction_x: the bytes stored from `index` on, pointer_counter there
setup_instruction_x(c, bytes, index) ==
    LET RECURSIVE StoreBytes(_, _, _)
        StoreBytes(d, rest, i) ==
            IF rest = <<>> THEN d
            ELSE StoreBytes(WriteByte(d, i, Head(rest)), Tail(rest), i + 1)
    IN  [StoreBytes(c, bytes, index) EXCEPT !.pointer_counter = index]

CpuInit(consoles) ==
    /\ console \in consoles
    /\ update_pc = "idle"
    /\ elapsed_cycles = 0
    /\ overflow_checks \in BOOLEAN
    /\ calls = 0
    /\ last_op = <<"new", 0, 0>>
    /\ obs = console

\* Console::execute_instruction, once
CpuStep ==
    /\ calls < MaxCpuOps
    /\ console.panic = ""
    /\ LET Executed(r) == BusDone(r.c, <<"execute", FetchedOpcode, r.cycles>>)
       IN  Executed(execute_instruction(console))

\* PHA; PLA with every accumulator at five stack pointers and three
\* accumulators at every stack pointer (below the RAM window too), PHP; PLP
\* with every combination of the seven flags at three stack pointers and
\* three combinations at every stack pointer of the RAM window, and the four
\* JSR of the cartridge at every stack pointer of the RAM window
StackInit ==
    CpuInit(
        {[new("stack") EXCEPT !.accumulator = a, !.stack_pointer = sp] :
            a \in 0..255, sp \in {128, 129, 192, 254, 255}}
        \cup {[new("stack") EXCEPT !.accumulator = a, !.stack_pointer = sp] :
            a \in {0, 66, 255}, sp \in 0..255}
        \cup {WithFlags([new("stack") EXCEPT !.pointer_counter = 61442,
                                             !.stack_pointer = sp], p) :
            sp \in {128, 192, 255}, p \in {q \in 0..255 : Bit(q, 5) = 0}}
        \cup {WithFlags([new("stack") EXCEPT !.pointer_counter = 61442,
                                             !.stack_pointer = sp], p) :
            sp \in 128..255, p \in {0, 138, 85}}
        \cup {[new("stack") EXCEPT !.pointer_counter = pc, !.stack_pointer = sp] :
            pc \in {61444, 61693, 61950, 65532}, sp \in 128..255})

StackSpec == StackInit /\ [][CpuStep]_vars


\* C21: for every byte v and every stack pointer in 0x80..0xFF, PHA with
\* A = v followed by PLA completes, leaves A = v (the byte PLA read back from
\* the stack) and leaves the stack pointer at its value before the PHA; in
\* between the byte is in the RAM cell the stack pointer named.
C21_PhaPlaRoundTrip ==
    (obs.pointer_counter = 61440 /\ obs.stack_pointer \in 128..255 /\ calls \in 1..2)
        => /\ console.panic = ""
           /\ calls = 1 => /\ last_op = <<"execute", 72, 3>>
                           /\ console.ram[obs.stack_pointer - 128] = obs.accumulator
                           /\ console.stack_pointer = obs.stack_pointer - 1
           /\ calls = 2 => /\ last_op = <<"execute", 104, 4>>
                           /\ console.accumulator = obs.accumulator
                           /\ console.stack_pointer = obs.stack_pointer

C21_Witness ==
    /\ calls = 2
    /\ obs.pointer_counter = 61440
    /\ obs.stack_pointer = 128
    /\ obs.accumulator = 66
    /\ last_op = <<"execute", 104, 4>>
    /\ console.accumulator = 66
    /\ console.stack_pointer = 128


\* the byte with N, V, B, D, I, Z, C of console `c` at bits 7, 6, 4, 3, 2, 1, 0
StatusByte(c) ==
    (IF c.negative_flag THEN 128 ELSE 0) + (IF c.overflow_flag THEN 64 ELSE 0)
  + (IF c.break_flag THEN 16 ELSE 0) + (IF c.decimal_flag THEN 8 ELSE 0)
  + (IF c.interrupt_flag THEN 4 ELSE 0) + (IF c.zero_flag THEN 2 ELSE 0)
  + (IF c.carry_flag THEN 1 ELSE 0)

\* C22: PHP pushes the byte with N, V, B, D, I, Z, C at bits 7, 6, 4, 3, 2, 1,
\* 0 and bit 5 clear; PLP decodes the same layout: for every combination of
\* the seven flags (stack pointer in 0x80..0xFF) PHP followed by PLP leaves
\* the seven flags and the stack pointer as they were before the PHP.
C22_PhpPlpRoundTrip ==
    (obs.pointer_counter = 61442 /\ obs.stack_pointer \in 128..255 /\ calls \in 1..2)
        => /\ console.panic = ""
           /\ StatusByte(console) = StatusByte(obs)
           /\ calls = 1 => /\ last_op = <<"execute", 8, 3>>
                           /\ console.ram[obs.stack_pointer - 128] = StatusByte(obs)
                           /\ Bit(console.ram[obs.stack_pointer - 128], 5) = 0
                           /\ console.stack_pointer = obs.stack_pointer - 1
           /\ calls = 2 => /\ last_op = <<"execute", 40, 4>>
                           /\ console.stack_pointer = obs.stack_pointer

\* N = 1, V = 0, B = 0, D = 1, I = 0, Z = 1, C = 0 pushed as 0b10001010 and
\* pulled again
C22_Witness ==
    /\ calls = 2
    /\ obs.pointer_counter = 61442
    /\ StatusByte(obs) = 138
    /\ last_op = <<"execute", 40, 4>>
    /\ console.ram[obs.stack_pointer - 128] = 138
    /\ console.negative_flag /\ console.decimal_flag /\ console.zero_flag
    /\ ~console.overflow_flag /\ ~console.break_flag
    /\ ~console.interrupt_flag /\ ~console.carry_flag


\* C23: JSR at address p pushes the 16-bit value p + 2, high byte first (so
\* the low byte is popped first), and sets PC to its operand; RTS executed
\* with that stack sets PC to p + 3 and restores the stack pointer to its
\* value before the JSR (stack pointer in 0x81..0xFF, both bytes in RAM).
C23_JsrRtsRoundTrip ==
    (obs.pointer_counter \in {61444, 61693, 61950, 65532}
        /\ obs.stack_pointer \in 129..255 /\ calls \in 1..2)
        => /\ console.panic = ""
           /\ console.ram[obs.stack_pointer - 128] = (obs.pointer_counter + 2) \div 256
           /\ console.ram[obs.stack_pointer - 129] = (obs.pointer_counter + 2) % 256
           /\ calls = 1 =>
                /\ last_op = <<"execute", 32, 6>>
                /\ console.pointer_counter =
                       (IF obs.pointer_counter = 61693 THEN 4128 ELSE 61472)
                /\ console.stack_pointer = obs.stack_pointer - 2
           /\ calls = 2 =>
                /\ last_op = <<"execute", 96, 6>>
                /\ console.pointer_counter = obs.pointer_counter + 3
                /\ console.stack_pointer = obs.stack_pointer

\* the JSR at 0xF0FD, whose return address 0xF0FF is the last byte of its
\* page: RTS continues at 0xF100
C23_Witness ==
    /\ calls = 2
    /\ obs.pointer_counter = 61693
    /\ obs.stack_pointer = 129
    /\ last_op = <<"execute", 96, 6>>
    /\ console.ram[1] = 240 /\ console.ram[0] = 255
    /\ console.pointer_counter = 61696
    /\ console.stack_pointer = 129


\* C24 as stated: push_value succeeds when the stack pointer is in
\* 0x80..0xFF and aborts with its assertion for every stack pointer below
\* 0x80, so that no push leaves the stack pointer below 0x7F.  (PHA is the
\* push; the console keeps its state when the process aborts.)
C24_PushAbortsBelowRam ==
    (obs.pointer_counter = 61440 /\ calls = 1)
        => /\ obs.stack_pointer \in 128..255 => console.panic = ""
           /\ obs.stack_pointer \in 0..127 =>
                  console.panic = "cannot push value; stack is full"
           /\ console.stack_pointer >= 127


---------------------------------------------------------------------------
(* The conditional branches: the two bytes of the instruction are stored   *)
(* in RAM at 0x80 or at 0xFE (the operand is then the last byte of page    *)
(* 0), every opcode with every operand, all flags clear or all flags set;  *)
(* the two branches of the cartridge besides.                              *)

BranchInit ==
    CpuInit(
        {WithFlags(setup_instruction_x(new("stack"), <<opcode, operand>>, index), p) :
            opcode \in {16, 48, 80, 112, 144, 176, 208, 240},
            operand \in 0..255, index \in {128, 254}, p \in {0, 223}}
        \cup {WithFlags([new("stack") EXCEPT !.pointer_counter = index], p) :
            index \in {61488, 61696}, p \in {0, 223}})

BranchSpec == BranchInit /\ [][CpuStep]_vars

\* the condition of the branch `opcode` in console `c`
BranchCondition(opcode, c) ==
    CASE opcode = 16 -> ~c.negative_flag
      [] opcode = 48 -> c.negative_flag
      [] opcode = 80 -> ~c.overflow_flag
      [] opcode = 112 -> c.overflow_flag
      [] opcode = 144 -> ~c.carry_flag
      [] opcode = 176 -> c.carry_flag
      [] opcode = 208 -> ~c.zero_flag
      [] opcode = 240 -> c.zero_flag

\* what C25 states of a branch with signed offset `offset` fetched at
\* obs.pointer_counter, in the state after it
BranchOutcome(opcode, offset) ==
    LET after == obs.pointer_counter + 2
        target == (after + offset + 65536) % 65536
    IN  /\ console.panic = ""
        /\ IF BranchCondition(opcode, obs)
           THEN /\ console.pointer_counter = target
                /\ last_op[3] = (IF target \div 256 = after \div 256 THEN 3 ELSE 4)
           ELSE /\ console.pointer_counter = after
                /\ last_op[3] = 2

\* C25 as stated: for each of the eight conditional branches and every
\* signed offset in -128..127, 0 included: PC ends just after the operand
\* with 2 cycles when the condition is false, at (address after the operand
\* + offset) mod 2^16 with 3 cycles (same page) or 4 (other page) when it is
\* true, and the computation never overflows.
C25_BranchOutcome ==
    calls = 1 =>
        LET Stated(opcode, operand) ==
                BranchOutcome(opcode, IF operand >= 128 THEN operand - 256 ELSE operand)
        IN  Stated(ReadByte(obs, obs.pointer_counter).value,
                   ReadByte(obs, obs.pointer_counter + 1).value)


---------------------------------------------------------------------------
(* ADC: `ADC #M` stored in RAM at 0x80 (every accumulator with twelve      *)
(* operands and both carries, every operand with three accumulators and    *)
(* the other flags set, decimal included), and `ADC ($90),Y` with the      *)
(* pointer stored at 0x90, 0x91 and 0x55 stored where pointer + Y is RAM.  *)

AdcInit ==
    CpuInit(
        {WithFlags([setup_instruction_x(new("stack"), <<105, m>>, 128)
                        EXCEPT !.accumulator = a], p) :
            a \in 0..255, m \in {0, 1, 15, 16, 85, 127, 128, 129, 170, 240, 254, 255},
            p \in {0, 1}}
        \cup {WithFlags([setup_instruction_x(new("stack"), <<105, m>>, 128)
                            EXCEPT !.accumulator = a], p) :
            a \in {1, 127, 255}, m \in 0..255, p \in {222, 223}}
        \cup {WithFlags(
                 [setup_instruction_x(
                      setup_instruction_x(
                          IF h = 0 /\ l + y \in 128..255
                          THEN setup_instruction_x(new("stack"), <<85>>, l + y)
                          ELSE new("stack"),
                          <<l, h>>, 144),
                      <<113, 144>>, 128)
                    EXCEPT !.y_register = y, !.accumulator = a], p) :
            l \in {160, 240}, h \in {0, 15}, y \in {0, 16, 32},
            a \in {0, 1}, p \in {0, 1}})

AdcSpec == AdcInit /\ [][CpuStep]_vars

C27_IndirectIndexed ==
    (calls = 1 /\ obs.ram[0] = 113) =>
        LET pointer == from_le_bytes(obs.ram[16], obs.ram[17])
            value == ReadByte(obs, (pointer + obs.y_register) % 65536).value
        IN  /\ console.panic = ""
            /\ console.accumulator =
                   (obs.accumulator + value + (IF obs.carry_flag THEN 1 ELSE 0)) % 256
            /\ last_op[3] = (IF obs.ram[16] + obs.y_register > 255 THEN 6 ELSE 5)


---------------------------------------------------------------------------
(* create_scanline on the registers a program left.                        *)

MaxVideoOps == 1

\* the colour and playfield registers as a program left them: the bytes of
\* COLUP0, COLUP1, COLUPF, COLUBK, CTRLPF and of PF0, PF1, PF2
VideoInit ==
    CpuInit(
        {[setup_instruction_x(setup_instruction_x(new("timer"), colors \o <<ctrlpf>>, COLUP0),
                              <<pf0, pf1, pf2>>, PF0)
            EXCEPT !.pointer_counter = 61440] :
            colors \in {<<70, 136, 30, 128>>, <<30, 30, 30, 30>>},
            ctrlpf \in 0..7,
            pf0 \in {0, 240, 80, 31},
            pf1 \in {0, 255, 1, 128, 165},
            pf2 \in {0, 255, 1, 128, 60}})

\* create_scanline, as execute_color_cycle calls it at the end of a line
CreateScanline ==
    /\ calls < MaxVideoOps
    /\ console.panic = ""
    /\ BusDone(console, <<"create_scanline", create_scanline(console),
                          playfield_bits(console)>>)

VideoSpec == VideoInit /\ [][CreateScanline]_vars


\* C28: in a scanline composed by create_scanline, with b[0..19] the 20
\* playfield bits, pixel x of the left half (0 <= x < 80) has the colour of
\* the playfield when b[x div 4] is set and the background colour otherwise;
\* pixel 80 + x has the colour of the playfield when b[x div 4] is set
\* (CTRLPF bit 0 clear), respectively when b[19 - x div 4] is set (CTRLPF bit
\* 0 set), and the background colour otherwise.  The colour of the playfield
\* is that of COLUPF, or in score mode (CTRLPF bit 1) that of COLUP0 in the
\* left half and of COLUP1 in the right half.
C28_ScanlinePlayfield ==
    last_op[1] = "create_scanline" =>
        LET Stated(line, b, background, left, right) ==
                \A x \in 0..79 :
                    /\ line[x] = (IF b[(x \div 4) + 1] THEN left ELSE background)
                    /\ line[80 + x] =
                           (IF (IF Bit(console.tia[CTRLPF], 0) = 0
                                THEN b[(x \div 4) + 1] ELSE b[20 - (x \div 4)])
                            THEN right ELSE background)
        IN  Stated(last_op[2], last_op[3],
                   to_rgb(color_and_luminance(console.tia[COLUBK])),
                   to_rgb(color_and_luminance(
                       console.tia[IF Bit(console.tia[CTRLPF], 1) = 1 THEN COLUP0 ELSE COLUPF])),
                   to_rgb(color_and_luminance(
                       console.tia[IF Bit(console.tia[CTRLPF], 1) = 1 THEN COLUP1 ELSE COLUPF])))

\* COLUBK = 0x80, COLUPF = 0x1E, PF0 = 0xF0, PF1 = PF2 = 0, mirror mode:
\* columns 0..15 and 144..159 have the colour of COLUPF, the rest that of
\* COLUBK
C28_Witness ==
    /\ last_op[1] = "create_scanline"
    /\ console.tia[COLUBK] = 128 /\ console.tia[COLUPF] = 30
    /\ console.tia[CTRLPF] = 1
    /\ console.tia[PF0] = 240 /\ console.tia[PF1] = 0 /\ console.tia[PF2] = 0
    /\ \A x \in 0..159 :
          last_op[2][x] = (IF x < 16 \/ x >= 144 THEN <<252, 252, 104>> ELSE <<0, 24, 124>>)


\* C29 as stated: the 20 playfield bits of the left half are, in order, PF0
\* bits 4, 5, 6, 7, then PF1 bits 7, 6, 5, 4, 3, 2, 1, 0, then PF2 bits 0, 1,
\* ..., 7.
C29_PlayfieldBitOrder ==
    last_op[1] = "create_scanline" =>
        last_op[3] =
            [i \in 1..20 |->
                IF i <= 4 THEN Bit(console.tia[PF0], i + 3) = 1
                ELSE IF i <= 12 THEN Bit(console.tia[PF1], 12 - i) = 1
                ELSE Bit(console.tia[PF2], i - 13) = 1]


---------------------------------------------------------------------------
(* The collision latches: program writes to CXCLR (also through a mirror   *)
(* of the address) and to the eight latch registers.                       *)

MaxLatchOps == 3

\* a store through memory_mut; last_op keeps the latches before the write
LatchWrite ==
    \E index \in {CXCLR, CXCLR + 8192, CXM0P, CXM1P, CXP0FB, CXP1FB,
                  CXM0FB, CXM1FB, CXBLPF, CXPPMM},
       value \in {0, 255} :
        /\ calls < MaxLatchOps
        /\ console.panic = ""
        /\ BusDone(WriteByte(console, index, value),
                   <<"write", index, value, [i \in CXM0P..CXPPMM |-> console.tia[i]]>>)

LatchSpec == BusInit /\ [][LatchWrite]_vars

\* C30: a write of any value to CXCLR (0x2C) leaves all eight collision-latch
\* registers CXM0P, CXM1P, CXP0FB, CXP1FB, CXM0FB, CXM1FB, CXBLPF and CXPPMM
\* (0x30..0x37) equal to zero.
C30_CxclrClearsLatches ==
    (last_op[1] = "write" /\ last_op[2] % 8192 = CXCLR) =>
        /\ console.panic = ""
        /\ \A latch \in {CXM0P, CXM1P, CXP0FB, CXP1FB, CXM0FB, CXM1FB, CXBLPF, CXPPMM} :
              console.tia[latch] = 0

\* CXCLR written while CXM0P and CXPPMM held 0xFF
C30_Witness ==
    /\ last_op[1] = "write"
    /\ last_op[2] = CXCLR
    /\ last_op[4][CXM0P] = 255
    /\ last_op[4][CXPPMM] = 255
    /\ console.tia[CXM0P] = 0
    /\ console.tia[CXPPMM] = 0


\* C31 as stated: between two CXCLR strobes a bit that is set in one of the
\* collision-latch registers 0x30..0x37 stays set: no CPU store or other
\* step that is not a write to CXCLR clears it.
C31_LatchesMonotonic ==
    [][(last_op'[1] = "write" /\ last_op'[2] % 8192 # CXCLR) =>
          \A latch \in CXM0P..CXPPMM, b \in 0..7 :
              Bit(console.tia[latch], b) = 1 => Bit(console'.tia[latch], b) = 1]_vars


---------------------------------------------------------------------------
(* The position strobes: program writes to RESP0, RESP1, RESM0, RESM1 and  *)
(* RESBL (0x10..0x14) at any place of the first scanline.                  *)

MaxStrobeOps == 27

\* Console::execute_cycle, once
BeamCycle ==
    /\ calls < MaxStrobeOps
    /\ console.panic = ""
    /\ BusDone(execute_cycle(console), <<"cycle", console.scanline, console.scanline_cycle>>)

\* a store through memory_mut to a strobe; last_op keeps where the beam was
StrobeWrite ==
    \E index \in 16..20 :
        /\ calls < MaxStrobeOps
        /\ console.panic = ""
        /\ BusDone(WriteByte(console, index, 0),
                   <<"write", index, console.scanline_cycle>>)

StrobeNext ==
    \/ BeamCycle
    \/ StrobeWrite

StrobeSpec == BusInit /\ [][StrobeNext]_vars

\* C32 as stated: a write to RESP0, RESP1, RESM0, RESM1 or RESBL sets the X
\* position of its object to scanline_cycle - 68 when the beam is outside
\* horizontal blank, and to 3 (players) or 2 (missiles, ball) when
\* scanline_cycle < 68.
C32_StrobeSetsPosition ==
    last_op[1] = "write" =>
        LET Stated(position, is_player) ==
                position = (IF last_op[3] >= 68 THEN last_op[3] - 68
                            ELSE IF is_player THEN 3 ELSE 2)
        IN  CASE last_op[2] = 16 -> Stated(console.players_position[1], TRUE)
              [] last_op[2] = 17 -> Stated(console.players_position[2], TRUE)
              [] last_op[2] = 18 -> Stated(console.missiles_position[1], FALSE)
              [] last_op[2] = 19 -> Stated(console.missiles_position[2], FALSE)
              [] last_op[2] = 20 -> Stated(console.ball_position, FALSE)


\* C33: on a timer tick (update_timer) where timer_elapsed_clocks reaches 0:
\* if INTIM is 0, timer_interval becomes 1 and bits 6 and 7 of INSTAT are
\* set; INTIM is decremented modulo 256; timer_elapsed_clocks is reset to the
\* (possibly just changed) timer_interval.  On a tick where it does not
\* reach 0, INTIM, INSTAT and timer_interval are unchanged.  Nothing else of
\* the console changes on a tick.
C33_TimerTick ==
    [][(last_op'[1] = "tick" /\ calls' = calls + 1) =>
          IF console.timer_elapsed_clocks = 1
          THEN /\ console'.timer_interval =
                      (IF console.timer_value = 0 THEN 1 ELSE console.timer_interval)
               /\ console'.timer_status =
                      (IF console.timer_value = 0
                       THEN console.timer_status
                              + (IF Bit(console.timer_status, 6) = 0 THEN 64 ELSE 0)
                              + (IF Bit(console.timer_status, 7) = 0 THEN 128 ELSE 0)
                       ELSE console.timer_status)
               /\ console'.timer_value = (console.timer_value + 255) % 256
               /\ console'.timer_elapsed_clocks = console'.timer_interval
               /\ console' = [console EXCEPT
                                  !.timer_interval = console'.timer_interval,
                                  !.timer_status = console'.timer_status,
                                  !.timer_value = console'.timer_value,
                                  !.timer_elapsed_clocks = console'.timer_elapsed_clocks]
          ELSE console' = [console EXCEPT !.timer_elapsed_clocks = @ - 1]]_vars

\* a tick on which timer_elapsed_clocks reaches 0 while INTIM is 0: INTIM
\* wraps to 0xFF, the interval is 1 and both status bits are set
C33_Witness ==
    /\ calls = 2
    /\ last_op[1] = "tick"
    /\ console.timer_value = 255
    /\ console.timer_interval = 1
    /\ console.timer_elapsed_clocks = 1
    /\ console.timer_status = 192
    /\ console.panic = ""


\* C34: in the first CPU cycle in which bit 1 of VSYNC reads 0 after a cycle
\* in which it read 1, execute_cycle sets scanline to 2 before running its
\* color cycles; in every other cycle scanline changes only by +1 at a line
\* boundary or by wrapping from 261 to 0.  Steps that are not an
\* execute_cycle leave scanline alone.
C34_VsyncResync ==
    [][IF console'.cycles_count = console.cycles_count + 1
       THEN LET Stated(start) ==
                    /\ console'.scanline =
                           (IF console.scanline_cycle + 3 < HORIZONTAL_CYCLES THEN start
                            ELSE IF start = VERTICAL_LINES - 1 THEN 0 ELSE start + 1)
                    /\ console'.is_vsync = (Bit(console.tia[VSYNC], 1) = 1)
            IN  Stated(IF console.is_vsync /\ Bit(console.tia[VSYNC], 1) = 0
                       THEN 2 ELSE console.scanline)
       ELSE console'.scanline = console.scanline /\ console'.is_vsync = console.is_vsync]_vars

\* the kernel cleared VSYNC in its second line: the beam is on line 2 after
\* fewer CPU cycles than two lines take
C34_Witness ==
    /\ console.cartridge = "kernel"
    /\ console.scanline = 2
    /\ ~console.is_vsync
    /\ console.tia[VSYNC] = 0
    /\ console.cycles_count < 100


\* C35: in update, the instruction executed next after an instruction that
\* wrote WSYNC (obs.halted_by_instruction: the instruction before left the
\* CPU halted) starts at a line boundary, with scanline_cycle = 0.
C35_WsyncStartsLine ==
    [][(IsExecuteInstruction /\ obs.halted_by_instruction) =>
           console.scanline_cycle = 0]_vars


\* C36: whenever update returns, the number of CYCLE_DURATION periods
\* credited from the elapsed time handed to update so far equals
\* cycles_count + remaining_cycles; what is left of the time is less than
\* one period.
C36_CyclesConserved ==
    (update_pc = "idle" /\ console.panic = "") =>
        /\ obs.host_elapsed \div CYCLE_DURATION =
               console.cycles_count + console.remaining_cycles
        /\ console.elapsed_time = obs.host_elapsed % CYCLE_DURATION

\* update returned from the halted branch: the CPU is still halted, every
\* credited cycle was run as a TIA cycle
C36_Witness ==
    /\ update_pc = "idle"
    /\ console.panic = ""
    /\ console.cpu_halt
    /\ console.remaining_cycles = 0
    /\ console.cycles_count > 20
    /\ obs.halted_cycles_since_fetch > 0


---------------------------------------------------------------------------
(* Instructions that only read their operand, stored in RAM at 0x80 with   *)
(* an operand address whose store has a side effect: WSYNC and CXCLR in    *)
(* zero-page form, WSYNC, CXCLR and TIM1T..T1024T in absolute form.  The   *)
(* collision latch CXM0P holds 0x00 or 0xFF.                               *)

\* zero-page opcodes of ADC AND BIT CMP CPX CPY EOR LDA LDX LDY ORA
ReadOpcodesZeroPage == {101, 37, 36, 197, 228, 196, 69, 165, 166, 164, 5}

\* their absolute forms
ReadOpcodesAbsolute == {109, 45, 44, 205, 236, 204, 77, 173, 174, 172, 13}

ReadInit ==
    CpuInit(
        {[setup_instruction_x(WriteByte(new("stack"), CXM0P, latch), <<opcode, index>>, 128)
             EXCEPT !.accumulator = a] :
            opcode \in ReadOpcodesZeroPage, index \in {WSYNC, CXCLR},
            latch \in {0, 255}, a \in {0, 1, 255}}
        \cup {[setup_instruction_x(WriteByte(new("stack"), CXM0P, latch),
                                   <<opcode, index % 256, index \div 256>>, 128)
                  EXCEPT !.accumulator = a] :
            opcode \in ReadOpcodesAbsolute, index \in {WSYNC, CXCLR} \cup TIM1T..T1024T,
            latch \in {0, 255}, a \in {0, 1, 255}})

ReadSpec == ReadInit /\ [][CpuStep]_vars

\* C37: an instruction that only reads its memory operand, executed with an
\* operand address of WSYNC, CXCLR or TIM1T..T1024T, leaves cpu_halt, the
\* collision latches, timer_interval, timer_elapsed_clocks and timer_block
\* unchanged.
C37_ReadHasNoWriteEffect ==
    (calls = 1 /\ console.panic = "") =>
        /\ console.cpu_halt = obs.cpu_halt
        /\ \A latch \in CXM0P..CXPPMM : console.tia[latch] = obs.tia[latch]
        /\ console.timer_interval = obs.timer_interval
        /\ console.timer_elapsed_clocks = obs.timer_elapsed_clocks
        /\ console.timer_block = obs.timer_block


\* C38: opcodes 0xE4 and 0xEC (CPX zero-page and absolute) are routed by
\* execute_instruction to cpx_instruction: the console after the instruction
\* is the one cpx_instruction leaves (operand bytes consumed, flags from
\* X - M) and the cycles returned are 3 and 4.
C38_CpxRouted ==
    (calls = 1 /\ obs.ram[0] \in {228, 236}) =>
        LET Routed(r, cycles, length) ==
                /\ r.cycles = cycles
                /\ r.c.pointer_counter = obs.pointer_counter + length
                /\ last_op = <<"execute", obs.ram[0], cycles>>
                /\ console = [r.c EXCEPT !.instructions_count = @ + 1]
        IN  Routed(cpx_instruction(advance_pointer(obs), obs.ram[0]),
                   IF obs.ram[0] = 228 THEN 3 ELSE 4,
                   IF obs.ram[0] = 228 THEN 2 ELSE 3)


\* C39: a write to a timer reload register (0x0294..0x0297) changes no bit
\* of INSTAT other than bit 7: bit 6 keeps the value it had before the
\* write.
C39_ReloadKeepsBit6 ==
    [][(calls' = calls + 1 /\ last_op'[1] = "write" /\ last_op'[2] \in TIM1T..T1024T) =>
           \A b \in 0..6 : Bit(console'.timer_status, b) = Bit(console.timer_status, b)]_vars


---------------------------------------------------------------------------
(* update over whole frames with a cartridge that gives the background a   *)
(* colour while the beam composes the last two visible lines.              *)

PictureInit == InitWith({"picture"})

PictureSpec == PictureInit /\ [][NextFrame]_vars

\* C40: the beam modifies the framebuffer only by replacing row
\* scanline - 40 with the newly composed line when a line boundary moves
\* scanline into 40..231; every other step, the wrap of scanline from 261
\* to 0 included, leaves every row as it was.
C40_FramebufferRows ==
    [][\/ console'.framebuffer = console.framebuffer
       \/ /\ console'.scanline_cycle < console.scanline_cycle
          /\ console'.scanline \in 40..231
          /\ console'.framebuffer =
                 store_framebuffer_row(console, console'.scanline - 40,
                                       create_scanline(console')).framebuffer]_vars

=============================================================================
